---- MODULE Spec2Model ----
(***************************************************************************)
(* Family merge, enhancement-step discovery and awakening-chain resolution *)
(* of scrapeDokkanInfoBS4.py, as state machines.                           *)
(*                                                                         *)
(* Python values: None is the string "None" for text fields and 0 for ids  *)
(* and step numbers.  Form ids are the decimal ids of the card URLs; they  *)
(* are kept as naturals, int(nid) being their value.                       *)
(***************************************************************************)
EXTENDS Integers, Sequences, FiniteSets, TLC

VARIABLES
    file,          \* METADATA.json of the family folder: "absent", "ok" or,
                   \* when its text is no JSON, "corrupt"
    doc,           \* parsed content of METADATA.json when file = "ok"; of the
                   \* write that was cut short when file = "corrupt"
    lastKey,       \* key of the variant record of the latest merge
    mergedAssets,  \* every asset entry handed to a merge so far
    docB,          \* a second family folder fed the same records in another order
    doneA,         \* records merged into doc (order experiment)
    doneB,         \* records merged into docB (order experiment)
    pc,            \* position of scrape_all_variants_for_base
    page,          \* the rendered base page
    ezaPage,       \* the page rendered with eza=true&step=1
    rarity,        \* rarity returned by the base scrape
    steps,         \* discovered step list
    maxStep,       \* eza_max_step
    idx,           \* position of the loop over steps
    fails,         \* step pages that failed to load
    graph,         \* var_by_id of the walk: id -> [to_ids, rarity_rank]
    cur,           \* _chain_head: cur
    seen,          \* _chain_head: seen
    visits,        \* how often each id has been cur
    wpc,           \* position of the _chain_head loop
    catIndex,      \* parsed content of CATEGORIES_INDEX.json, {} when absent
    job,           \* two writers of one family folder: the record each merges
    snap,          \* the document each writer has read
    rpc,           \* position of each writer inside its merge
    fn,            \* the text function applied to a scraped fragment
    arg,           \* the fragment
    out            \* what the function returned

vars == <<file, doc, lastKey, mergedAssets, docB, doneA, doneB,
          pc, page, ezaPage, rarity, steps, maxStep, idx, fails,
          graph, cur, seen, visits, wpc, catIndex, job, snap, rpc, fn, arg, out>>

mergeVars == <<file, doc, lastKey, mergedAssets>>
orderVars == <<docB, doneA, doneB>>
regVars   == <<catIndex>>
raceVars  == <<job, snap, rpc>>
textVars  == <<fn, arg, out>>
extVars   == <<raceVars, textVars>>
stepVars  == <<pc, page, ezaPage, rarity, steps, maxStep, idx, fails>>
walkVars  == <<graph, cur, seen, visits, wpc>>

None == "None"

-----------------------------------------------------------------------------
(* Generic helpers *)

Range(s) == {s[i] : i \in DOMAIN s}

Max(a, b) == IF a >= b THEN a ELSE b

RECURSIVE SetMax(_)
SetMax(S) ==
    LET x == CHOOSE y \in S : TRUE
    IN  IF S = {x} THEN x ELSE Max(x, SetMax(S \ {x}))

\* range(1, n + 1)
PyRange1(n) == [i \in 1..n |-> i]

-----------------------------------------------------------------------------
(* Asset classification and the categorized asset index *)

PathBg1   == "dokkaninfo.com/assets/global/en/character/card/1/card_1_bg.png"
PathChar1 == "dokkaninfo.com/assets/global/en/character/card/1/card_1_character.png"
PathBg2   == "dokkaninfo.com/assets/global/en/character/card/2/card_2_bg.png"
PathThumb == "dokkaninfo.com/assets/global/en/character/thumb/card_1_thumb.png"
PathIcon  == "dokkaninfo.com/assets/global/en/layout/en/image/cha_type_icon_01.png"

AssetPaths == {PathBg1, PathChar1, PathBg2, PathThumb, PathIcon}

\* position of a string in Python's string order, for the strings in use
StrRank(s) ==
    CASE s = ""           -> 0
      [] s = "bg"         -> 1
      [] s = "card_thumb" -> 2
      [] s = "character"  -> 3
      [] s = "type_icon"  -> 4
      [] s = PathBg1      -> 5
      [] s = PathChar1    -> 6
      [] s = PathBg2      -> 7
      [] s = PathThumb    -> 8
      [] s = PathIcon     -> 9

\* A path is read through its "/"-separated segments.  Segments(rel) gives
\* them for the paths above; SegPath is the same for a path given directly
\* by its segments, written with "/" or with "\".
Segments(rel) ==
    LET dirs == <<"dokkaninfo.com", "assets", "global", "en">>
    IN  CASE rel = PathBg1   -> dirs \o <<"character", "card", "1", "card_1_bg.png">>
          [] rel = PathChar1 -> dirs \o <<"character", "card", "1", "card_1_character.png">>
          [] rel = PathBg2   -> dirs \o <<"character", "card", "2", "card_2_bg.png">>
          [] rel = PathThumb -> dirs \o <<"character", "thumb", "card_1_thumb.png">>
          [] rel = PathIcon  -> dirs \o <<"layout", "en", "image", "cha_type_icon_01.png">>

\* str.lower() of a segment
LowerSeg(seg) ==
    CASE seg = "Card"          -> "card"
      [] seg = "Card_1_BG.png" -> "card_1_bg.png"
      [] seg = "EN"            -> "en"
      [] OTHER                 -> seg

\* the substrings a lower-cased segment contains, of those the rules look for
SegContains(seg) ==
    CASE seg = "dokkan-info-logo.png"         -> {"dokkan-info-logo"}
      [] seg = "ad_banner.png"                -> {"ad"}
      [] seg = "venatus_frame.js"             -> {"^venatus"}
      [] seg = "cha_rare_sm_ur.png"           -> {"cha_rare_sm_", "cha_rare_"}
      [] seg = "cha_type_icon_01.png"         -> {"^cha_type_icon_"}
      [] seg = "st_0001.png"                  -> {"^st_"}
      [] seg = "card_category_label_7_en.png" -> {"card_category_label_"}
      [] seg = "zbattle_01.png"               -> {"zbattle"}
      [] seg = "equ_item_3.png"               -> {"^equ_item_"}
      [] seg = "card_1_bg.png"                -> {"_bg."}
      [] seg = "card_2_bg.png"                -> {"_bg."}
      [] seg = "card_1_character.png"         -> {"_character."}
      [] seg = "card_1_cutin.png"             -> {"cutin"}
      [] OTHER                                -> {}

\* the digits of an all-digit segment, 0 for any other
DigitsOf(seg) == CASE seg = "1" -> 1 [] seg = "2" -> 2 [] OTHER -> 0

\* CARD_ID_IN_SRC_RE: card_(\d+)_ inside a segment
CardIdIn(seg) ==
    CASE LowerSeg(seg) \in {"card_1_bg.png", "card_1_character.png",
                            "card_1_cutin.png", "card_1_thumb.png"} -> 1
      [] seg = "card_2_bg.png" -> 2
      [] OTHER -> 0

\* the number in card_category_label_(\d+)_
LabelIdIn(seg) == IF seg = "card_category_label_7_en.png" THEN 7 ELSE 0

\* f"{cid}.png"
FileOfId(cid) == CASE cid = 1 -> "1.png" [] cid = 2 -> "2.png" [] OTHER -> ""

LowerSegs(segs) == [k \in DOMAIN segs |-> LowerSeg(segs[k])]

\* "/a/b/" in p: a run of whole segments with a "/" on both sides
HasDirs(segs, dirs) ==
    \E i \in 2..Len(segs) :
        /\ i + Len(dirs) - 1 < Len(segs)
        /\ \A k \in DOMAIN dirs : segs[i + k - 1] = dirs[k]

\* "x" in p
HasText(segs, needle) == \E i \in DOMAIN segs : needle \in SegContains(segs[i])

\* "/x" in p: a segment after a "/" that starts with x
HasStart(segs, needle) == \E i \in 2..Len(segs) : needle \in SegContains(segs[i])

\* "/a/b/x" in p
HasDirsThenStart(segs, dirs, needle) ==
    \E i \in 2..Len(segs) :
        /\ i + Len(dirs) <= Len(segs)
        /\ \A k \in DOMAIN dirs : segs[i + k - 1] = dirs[k]
        /\ needle \in SegContains(segs[i + Len(dirs)])

\* CARD_FILE_ID_RE, then CARD_ID_IN_SRC_RE; 0 is None
_extract_card_id_from_rel(segs) ==
    LET IsCardDir(i) == /\ LowerSeg(segs[i]) = "card" /\ i + 1 < Len(segs)
                        /\ DigitsOf(segs[i + 1]) # 0
        InSrc(i)     == CardIdIn(segs[i]) # 0
    IN  IF \E i \in 2..Len(segs) : IsCardDir(i)
        THEN DigitsOf(segs[1 + CHOOSE i \in 2..Len(segs) :
                 IsCardDir(i) /\ \A j \in 2..(i - 1) : ~IsCardDir(j)])
        ELSE IF \E i \in DOMAIN segs : InSrc(i)
        THEN CardIdIn(segs[CHOOSE i \in DOMAIN segs :
                 InSrc(i) /\ \A j \in 1..(i - 1) : ~InSrc(j)])
        ELSE 0

LOCALES == {"en", "jp", "kr", "tw", "cn"}

_extract_locale_from_rel(segs) ==
    LET IsLocale(i) == LowerSeg(segs[i]) \in LOCALES /\ i < Len(segs)
    IN  IF \E i \in 2..Len(segs) : IsLocale(i)
        THEN LowerSeg(segs[CHOOSE i \in 2..Len(segs) :
                 IsLocale(i) /\ \A j \in 2..(i - 1) : ~IsLocale(j)])
        ELSE None

\* the conditions of the path-shape rules, in the order they are tried
IsLogo(p)       == HasText(p, "dokkan-info-logo")
IsAd(p)         == HasStart(p, "^venatus") \/ (HasText(p, "ad") /\ HasDirs(p, <<"image">>))
IsRarityIcon(p) == HasText(p, "cha_rare_sm_") \/ HasText(p, "cha_rare_")
IsTypeIcon(p)   == HasStart(p, "^cha_type_icon_")
IsThumbBg(p)    == HasDirs(p, <<"character_thumb_bg">>)
IsPassiveMark(p) == HasDirs(p, <<"ingame", "battle", "skill_dialog">>)
IsConditionIcon(p) == HasDirsThenStart(p, <<"ingame", "common", "condition">>, "^st_")
IsMenuIcon(p)   == HasDirs(p, <<"charamenu", "dokkan">>)
IsCategoryLabel(p) == HasDirs(p, <<"card_category", "label">>)
IsEventBanner(p) == HasDirs(p, <<"ingame", "events">>)
IsEquipment(p)  == \/ HasDirs(p, <<"item", "equipment">>)
                   \/ HasDirs(p, <<"layout", "en", "image", "item", "equipment">>)
IsThumbnail(p)  == HasDirs(p, <<"character", "thumb">>)
IsCardArt(p)    == HasDirs(p, <<"character", "card">>)

\* the subtype chain of the card-art rule
CardArtSubtype(cid, fname) ==
    IF cid # 0 /\ fname = FileOfId(cid) THEN "full_card"
    ELSE IF "_bg." \in SegContains(fname) THEN "bg"
    ELSE IF "_character." \in SegContains(fname) THEN "character"
    ELSE IF "_circle." \in SegContains(fname) THEN "circle"
    ELSE IF "_effect." \in SegContains(fname) THEN "effect"
    ELSE IF "cutin" \in SegContains(fname) THEN "cutin"
    ELSE IF "_sp02_name." \in SegContains(fname) THEN "super_name_alt"
    ELSE IF "_sp02_phrase." \in SegContains(fname) THEN "super_phrase_alt"
    ELSE IF "_sp_name." \in SegContains(fname) THEN "super_name"
    ELSE IF "_sp_phrase." \in SegContains(fname) THEN "super_phrase"
    ELSE "card_asset"

Classified(category, subtype, card_id, locale) ==
    [category |-> category, subtype |-> subtype, card_id |-> card_id, locale |-> locale]

\* variant: no rule for the paths that match nothing
ClassifyRules_nofallback(segs) ==
    LET p == LowerSegs(segs)
    IN  IF IsThumbnail(p)
        THEN Classified("thumbnail", "card_thumb", _extract_card_id_from_rel(segs),
                        _extract_locale_from_rel(segs))
        ELSE IF IsCardArt(p)
        THEN Classified("card_art", "card_asset", _extract_card_id_from_rel(segs),
                        _extract_locale_from_rel(segs))
        ELSE Classified(None, None, 0, None)

\* the body of classify_single_asset on the segments of rel
ClassifyRules(segs) ==
    LET p   == LowerSegs(segs)
        cid == _extract_card_id_from_rel(segs)
        loc == _extract_locale_from_rel(segs)
        lab == IF \E i \in DOMAIN p : LabelIdIn(p[i]) # 0
               THEN LabelIdIn(p[CHOOSE i \in DOMAIN p : LabelIdIn(p[i]) # 0])
               ELSE 0
    IN  IF IsLogo(p) THEN Classified("site", "logo", 0, None)
        ELSE IF IsAd(p) THEN Classified("site", "ad", 0, None)
        ELSE IF IsRarityIcon(p) THEN Classified("ui", "rarity_icon", 0, None)
        ELSE IF IsTypeIcon(p) THEN Classified("ui", "type_icon", 0, None)
        ELSE IF IsThumbBg(p) THEN Classified("ui", "thumb_bg", 0, None)
        ELSE IF IsPassiveMark(p) THEN Classified("ui", "passive_mark", 0, None)
        ELSE IF IsConditionIcon(p) THEN Classified("ui", "condition_icon", 0, None)
        ELSE IF IsMenuIcon(p) THEN Classified("ui", "menu_icon", 0, None)
        ELSE IF IsCategoryLabel(p)
        THEN Classified("category_label", lab, 0, loc)
        ELSE IF IsEventBanner(p)
        THEN Classified("event_banner",
                        IF HasText(p, "zbattle") THEN "zbattle" ELSE "event", 0, loc)
        ELSE IF IsEquipment(p)
        THEN Classified("equipment",
                        IF HasStart(p, "^equ_item_") THEN "item" ELSE "thumb_bg", 0, loc)
        ELSE IF IsThumbnail(p) THEN Classified("thumbnail", "card_thumb", cid, loc)
        ELSE IF IsCardArt(p)
        THEN Classified("card_art", CardArtSubtype(cid, p[Len(p)]), cid, loc)
        ELSE Classified("other", None, cid, loc)

\* what the rules give for each path of the pool
PoolVerdicts == [rel \in AssetPaths |-> ClassifyRules(Segments(rel))]

classify_single_asset(rel) ==
    LET c == PoolVerdicts[rel]
    IN  [path |-> rel, category |-> c.category, subtype |-> c.subtype]

Categories == {"card_art", "thumbnail", "ui"}

KEEP_ASSET_CATEGORIES == {"card_art", "thumbnail"}

\* an index maps a category to its entries; a category without entries is
\* a key the dict does not have
EmptyIndex == [c \in Categories |-> <<>>]

\* key=lambda x: (x.get("subtype") or "", x.get("path") or "")
AssetKeyLeq(a, b) ==
    \/ StrRank(a.subtype) < StrRank(b.subtype)
    \/ /\ StrRank(a.subtype) = StrRank(b.subtype)
       /\ StrRank(a.path) <= StrRank(b.path)

\* insert x after the entries that are not greater (list.sort is stable)
RECURSIVE InsertSorted(_, _)
InsertSorted(s, x) ==
    IF s = <<>> THEN <<x>>
    ELSE IF AssetKeyLeq(Head(s), x) THEN <<Head(s)>> \o InsertSorted(Tail(s), x)
         ELSE <<x>> \o s

RECURSIVE SortAssets(_)
SortAssets(s) ==
    IF s = <<>> THEN <<>>
    ELSE InsertSorted(SortAssets(SubSeq(s, 1, Len(s) - 1)), s[Len(s)])

\* rel_paths with repeated paths dropped, first occurrence kept
RECURSIVE DedupPaths(_, _)
DedupPaths(s, seenPaths) ==
    IF s = <<>> THEN <<>>
    ELSE IF Head(s) \in seenPaths THEN DedupPaths(Tail(s), seenPaths)
         ELSE <<Head(s)>> \o DedupPaths(Tail(s), seenPaths \cup {Head(s)})

build_assets_index(rel_paths) ==
    LET uniq == DedupPaths(rel_paths, {})
        InCat(c) == LET Keep(p) == classify_single_asset(p).category = c
                    IN  SelectSeq(uniq, Keep)
    IN  [c \in Categories |->
            SortAssets([i \in DOMAIN InCat(c) |-> classify_single_asset(InCat(c)[i])])]

\* every path of the pool is under /en/, so the locale filter keeps it
_prune_assets_index(index) ==
    [c \in Categories |-> IF c \in KEEP_ASSET_CATEGORIES THEN index[c] ELSE <<>>]

HavePaths(s) == {s[i].path : i \in DOMAIN s}

\* the loop over the items of one category: have is computed before the loop
RECURSIVE AppendMissing(_, _, _)
AppendMissing(existing, items, have) ==
    IF items = <<>> THEN existing
    ELSE IF Head(items).path \notin have
         THEN AppendMissing(Append(existing, Head(items)), Tail(items), have)
         ELSE AppendMissing(existing, Tail(items), have)

\* variant: every incoming entry is appended, whether its path is known or not
merge_assets_index_nodedup(dst, src) ==
    [c \in Categories |->
        IF src[c] = <<>> THEN dst[c]
        ELSE SortAssets(dst[c] \o src[c])]

\* variant: the entries of a category are left in arrival order
merge_assets_index_unsorted(dst, src) ==
    [c \in Categories |->
        IF src[c] = <<>> THEN dst[c]
        ELSE AppendMissing(dst[c], src[c], HavePaths(dst[c]))]

\* variant: the incoming list of a category takes the place of the stored one
merge_assets_index_overwrite(dst, src) ==
    [c \in Categories |->
        IF src[c] = <<>> THEN dst[c] ELSE SortAssets(src[c])]

merge_assets_index(dst, src) ==
    [c \in Categories |->
        IF src[c] = <<>> THEN dst[c]
        ELSE SortAssets(AppendMissing(dst[c], src[c], HavePaths(dst[c])))]

-----------------------------------------------------------------------------
(* Variant keys and rarity ranks *)

RARITY_RANK(r) ==
    CASE r = "N"   -> 0
      [] r = "R"   -> 1
      [] r = "SR"  -> 2
      [] r = "SSR" -> 3
      [] r = "UR"  -> 4
      [] r = "LR"  -> 5
      [] OTHER     -> -1

\* step = 0 stands for step=None
build_variant_key(eza, step) ==
    IF ~eza THEN "base"
    ELSE IF step = 0 THEN "eza"
    ELSE "eza_step_" \o ToString(step)

build_form_variant_key(form_id, eza, step) ==
    IF ~eza THEN "form_" \o ToString(form_id) \o "_base"
    ELSE IF step = 0 THEN "form_" \o ToString(form_id) \o "_eza"
    ELSE "form_" \o ToString(form_id) \o "_eza_step_" \o ToString(step)

\* not x, for the text fields
Falsy(x) == x = None \/ x = ""

-----------------------------------------------------------------------------
(* Awakening chains inside one family document *)

\* var_by_id: the last variant of the list carrying each form id
VarIds(variants) == {variants[i].form_id : i \in DOMAIN variants} \ {0}

var_by_id(variants, fid) ==
    LET last == SetMax({i \in DOMAIN variants : variants[i].form_id = fid})
    IN  variants[last]

_rarity_rank_of_variant(v) == v.rarity_rank

family_has_any_chain(variants) ==
    \E i \in DOMAIN variants :
        \/ variants[i].awakening.from_ids # <<>>
        \/ variants[i].awakening.to_ids # <<>>

\* variant: the filter keeps the ids outside the document
_next_ids_inverted(variants, fid) ==
    LET ids == IF fid \in VarIds(variants)
               THEN var_by_id(variants, fid).awakening.to_ids
               ELSE <<>>
        IsExternal(i) == i \notin VarIds(variants)
        external == SelectSeq(ids, IsExternal)
    IN  IF external # <<>> THEN external ELSE ids

_next_ids(variants, fid) ==
    LET ids == IF fid \in VarIds(variants)
               THEN var_by_id(variants, fid).awakening.to_ids
               ELSE <<>>
        IsInternal(i) == i \in VarIds(variants)
        internal == SelectSeq(ids, IsInternal)
    IN  IF internal # <<>> THEN internal ELSE ids

\* _key(nid) = (rarity rank, numeric id); an id outside the document ranks -1
KeyOf(variants, nid) ==
    <<IF nid \in VarIds(variants)
      THEN _rarity_rank_of_variant(var_by_id(variants, nid)) ELSE -1,
      nid>>

\* variant: the numeric id is compared before the rarity rank
KeyLess_idfirst(a, b) == a[2] < b[2] \/ (a[2] = b[2] /\ a[1] < b[1])

\* the order of Python tuples
KeyLess(a, b) == a[1] < b[1] \/ (a[1] = b[1] /\ a[2] < b[2])

\* max(nxts, key=_key): the first entry no later entry beats
RECURSIVE MaxByKey(_, _)
MaxByKey(variants, nxts) ==
    IF Len(nxts) = 1 THEN nxts[1]
    ELSE LET best == MaxByKey(variants, Tail(nxts))
         IN  IF KeyLess(KeyOf(variants, nxts[1]), KeyOf(variants, best))
             THEN best ELSE nxts[1]

\* variant: the loop without its cycle guard
ChainStep_noguard(variants, c, sn) ==
    LET nxts == _next_ids(variants, c)
    IN  IF nxts = <<>> THEN [ret |-> TRUE, cur |-> c, seen |-> sn]
        ELSE LET nxt == MaxByKey(variants, nxts)
             IN  [ret |-> FALSE, cur |-> nxt, seen |-> sn \cup {nxt}]

\* one pass of the while loop of _chain_head from (cur, seen):
\* the value returned, or the next (cur, seen)
ChainStep(variants, c, sn) ==
    LET nxts == _next_ids(variants, c)
    IN  IF nxts = <<>> THEN [ret |-> TRUE, cur |-> c, seen |-> sn]
        ELSE LET nxt == MaxByKey(variants, nxts)
             IN  IF nxt \in sn THEN [ret |-> TRUE, cur |-> c, seen |-> sn]
                 ELSE [ret |-> FALSE, cur |-> nxt, seen |-> sn \cup {nxt}]

RECURSIVE ChainLoop(_, _, _)
ChainLoop(variants, c, sn) ==
    LET r == ChainStep(variants, c, sn)
    IN  IF r.ret THEN r.cur ELSE ChainLoop(variants, r.cur, r.seen)

_chain_head(variants, fid) == ChainLoop(variants, fid, {})

\* the awakening lists are already lists, so normalising leaves them as they are
\* variant: the flag marks the variants no other variant awakens to
Annotate_rootflag(variants) ==
    [i \in DOMAIN variants |->
        LET v    == variants[i]
            fid  == v.form_id
            head == IF fid # 0 THEN _chain_head(variants, fid) ELSE 0
        IN  [key |-> v.key, form_id |-> v.form_id, step |-> v.step,
             is_super_eza |-> v.is_super_eza,
             rarity |-> v.rarity, rarity_rank |-> v.rarity_rank,
             awakening |-> v.awakening,
             awaken_chain_head_id |-> head,
             is_fully_awakened |->
                 \A j \in DOMAIN variants : fid \notin Range(variants[j].awakening.to_ids)]]

Annotate(variants) ==
    [i \in DOMAIN variants |->
        LET v    == variants[i]
            fid  == v.form_id
            head == IF fid # 0 THEN _chain_head(variants, fid) ELSE 0
        IN  [key |-> v.key, form_id |-> v.form_id, step |-> v.step,
             is_super_eza |-> v.is_super_eza,
             rarity |-> v.rarity, rarity_rank |-> v.rarity_rank,
             awakening |-> v.awakening,
             awaken_chain_head_id |-> head,
             is_fully_awakened |->
                 IF family_has_any_chain(variants) THEN fid = head ELSE TRUE]]

-----------------------------------------------------------------------------
(* merge_variant_into_unit_json *)

\* current = {}
EmptyDoc ==
    [unit_id |-> 0, form_id |-> 0, display_name |-> None, rarity |-> None,
     type |-> None, source_base_url |-> None,
     variants |-> <<>>, assets |-> <<>>, assets_index |-> EmptyIndex]

\* variant: the text of the file is taken for a document whatever it holds
LoadDoc_trusting(f, d) == d

\* variant: the stored document is never read
LoadDoc_blank(f, d) == EmptyDoc

\* current = json.loads(...) when the file exists and parses, {} otherwise
LoadDoc(f, d) == IF f = "ok" THEN d ELSE EmptyDoc

Seed(current, unit_fields) ==
    IF current = EmptyDoc
    THEN [unit_id |-> unit_fields.unit_id, form_id |-> unit_fields.form_id,
          display_name |-> unit_fields.display_name, rarity |-> unit_fields.rarity,
          type |-> unit_fields.type, source_base_url |-> unit_fields.source_base_url,
          variants |-> <<>>, assets |-> <<>>, assets_index |-> EmptyIndex]
    ELSE current

\* variant: a non-empty incoming value always replaces the stored one
Refresh_overwrite(old, new) == IF ~Falsy(new) THEN new ELSE old

\* refresh a top-level field only while it is missing
Refresh(old, new) == IF Falsy(old) /\ ~Falsy(new) THEN new ELSE old

KeyIndex(variants, key) ==
    IF \E i \in DOMAIN variants : variants[i].key = key
    THEN CHOOSE i \in DOMAIN variants :
            /\ variants[i].key = key
            /\ \A j \in 1..(i - 1) : variants[j].key # key
    ELSE 0

\* variant: the record is appended without looking for its key
Upsert_append(variants, variant_record) == Append(variants, variant_record)

\* variant: an existing entry is dropped and the record goes to the end
Upsert_move(variants, variant_record) ==
    LET HasOtherKey(v) == v.key # variant_record.key
    IN  Append(SelectSeq(variants, HasOtherKey), variant_record)

Upsert(variants, variant_record) ==
    LET i == KeyIndex(variants, variant_record.key)
    IN  IF i # 0 THEN [variants EXCEPT ![i] = variant_record]
        ELSE Append(variants, variant_record)

merge_variant_into_unit_json(current0, unit_fields, variant_record) ==
    LET current == Seed(current0, unit_fields)
    IN  [unit_id |-> current.unit_id,
         form_id |-> current.form_id,
         display_name |-> Refresh(current.display_name, unit_fields.display_name),
         rarity |-> Refresh(current.rarity, unit_fields.rarity),
         type |-> Refresh(current.type, unit_fields.type),
         source_base_url |-> Refresh(current.source_base_url, unit_fields.source_base_url),
         variants |-> Annotate(Upsert(current.variants, variant_record)),
         assets |-> current.assets,
         assets_index |-> merge_assets_index(current.assets_index, unit_fields.assets_index)]

-----------------------------------------------------------------------------
(* Enhancement-step discovery on a rendered page *)

\* What the discovery reads from a page:
\*   release_block  an "EZA Release Date" block is present
\*   stats_headers  a stats table header mentions EZA
\*   multiselect    div.multiselect is present
\*   options        texts of the option spans of the dropdown list
\*   single         text of span.multiselect__single, None when there is none
\*   toggle         both the PRE-EZA and the EZA <b> labels are present
\*   rarity         what detect_rarity_from_dom finds on the page
\*   loaded         the page was fetched (the soup is not None)
NoPage ==
    [release_block |-> FALSE, stats_headers |-> FALSE, multiselect |-> FALSE,
     options |-> <<>>, single |-> None, toggle |-> FALSE, rarity |-> None,
     loaded |-> FALSE]

\* str.isdigit and int for the texts in use
IsDigit(t) == t \in {"0", "1", "2", "3", "4", "5", "6", "7", "8", "9"}

IntOf(t) ==
    CASE t = "0" -> 0 [] t = "1" -> 1 [] t = "2" -> 2 [] t = "3" -> 3
      [] t = "4" -> 4 [] t = "5" -> 5 [] t = "6" -> 6 [] t = "7" -> 7
      [] t = "8" -> 8 [] t = "9" -> 9

\* sorted(set(...)) of a set of integers
RECURSIVE SortedSeq(_)
SortedSeq(S) ==
    IF S = {} THEN <<>>
    ELSE LET m == SetMax(S) IN Append(SortedSeq(S \ {m}), m)

discover_eza_steps_from_dropdown(pg) ==
    IF ~pg.multiselect THEN <<>>
    ELSE SortedSeq({IntOf(pg.options[i]) :
                        i \in {j \in DOMAIN pg.options : IsDigit(pg.options[j])}})

has_eza_dropdown(pg) ==
    IF ~pg.multiselect THEN FALSE
    ELSE IF discover_eza_steps_from_dropdown(pg) # <<>> THEN TRUE
    ELSE pg.single # None /\ IsDigit(pg.single)

\* variant: the listed values are returned without the backfill
discover_eza_steps_with_fallback_nobackfill(pg, rarity_hint) ==
    discover_eza_steps_from_dropdown(pg)

\* variant: the selected value alone bounds the range, whatever the rarity
discover_eza_steps_with_fallback_nocap(pg, rarity_hint) ==
    LET listed == discover_eza_steps_from_dropdown(pg)
    IN  IF listed # <<>> THEN PyRange1(SetMax(Range(listed)))
        ELSE IF pg.single = None THEN <<>>
        ELSE IF ~IsDigit(pg.single) THEN <<>>
        ELSE PyRange1(IntOf(pg.single))

\* the rarity hints in use are upper case, so upper() leaves them as they are
discover_eza_steps_with_fallback(pg, rarity_hint) ==
    LET listed == discover_eza_steps_from_dropdown(pg)
    IN  IF listed # <<>> THEN PyRange1(SetMax(Range(listed)))
        ELSE IF pg.single = None THEN <<>>
        ELSE IF ~IsDigit(pg.single) THEN <<>>
        ELSE LET c == IntOf(pg.single)
             IN  IF rarity_hint = "UR" THEN PyRange1(Max(c, 8))
                 ELSE IF rarity_hint = "LR" THEN PyRange1(Max(c, 4))
                 ELSE PyRange1(c)

\* returns (steps, max_step); max_step = 0 stands for None
discover_eza_steps_on_page_soup(pg, rarity_hint) ==
    IF ~pg.loaded THEN [steps |-> <<>>, max_step |-> 0]
    ELSE IF ~(has_eza_dropdown(pg) \/ pg.toggle) THEN [steps |-> <<>>, max_step |-> 0]
    ELSE LET st == discover_eza_steps_with_fallback(pg, rarity_hint)
         IN  [steps |-> st,
              max_step |-> IF st # <<>> THEN SetMax(Range(st)) ELSE 0]

has_eza_release_block(pg) == pg.release_block

has_eza_stats_headers(pg) == pg.stats_headers

has_eza_evidence(pg) == has_eza_release_block(pg) \/ has_eza_stats_headers(pg)

\* the gated discovery; no caller reaches it (resolve_canonical_and_discover_steps,
\* its only user, is never called)
discover_eza_steps_safe(pg, rarity_hint) ==
    IF ~has_eza_evidence(pg) THEN <<>>
    ELSE LET listed == discover_eza_steps_from_dropdown(pg)
         IN  IF listed # <<>> THEN PyRange1(SetMax(Range(listed)))
             ELSE IF pg.single # None /\ IsDigit(pg.single)
             THEN LET c == IntOf(pg.single)
                  IN  IF rarity_hint = "UR" THEN PyRange1(Max(c, 8))
                      ELSE IF rarity_hint = "LR" THEN PyRange1(Max(c, 4))
                      ELSE PyRange1(c)
             ELSE <<>>

\* 0 stands for None
super_eza_step_for_rarity(r) ==
    IF Falsy(r) THEN 0
    ELSE IF r = "LR" THEN 4
    ELSE IF r = "UR" THEN 8
    ELSE 0

\* the is_super_eza flag scrape_one_variant sets on a step variant
IsSuperEza(step, eza_max_step_hint) ==
    step = eza_max_step_hint /\ eza_max_step_hint \in {4, 8}

-----------------------------------------------------------------------------
(* The category registry, CATEGORIES_INDEX.json *)

\* category names as the img alt of the page gives them, and their slugs:
\* re.sub(r"[^a-z0-9]+", "-", name.lower()).strip("-")
NameDeeds   == "Inhuman Deeds"
NameDeedsJa == "Gokuaku Hidou"
NameAlt     == "Inhuman Deeds!"
NameFusion  == "Fusion"

Slug(name) ==
    CASE name = NameDeeds   -> "inhuman-deeds"
      [] name = NameDeedsJa -> "gokuaku-hidou"
      [] name = NameAlt     -> "inhuman-deeds"
      [] name = NameFusion  -> "fusion"
      [] OTHER              -> ""

\* the label images; _extract_locale_from_rel reads the locale off the path
RelDeedsEn  == "dokkaninfo.com/assets/japan/category/label/en/card_category_label_0050_b.png"
RelDeedsJa  == "dokkaninfo.com/assets/japan/category/label/ja/card_category_label_0050_b.png"
RelDeedsRaw == "dokkaninfo.com/assets/japan/category/label/card_category_label_0050_b.png"
RelFusion   == "dokkaninfo.com/assets/japan/category/label/en/card_category_label_0051_b.png"

\* a node the registry does not hold yet
NewNode(cid) == [id |-> cid, labels |-> <<>>, assets |-> <<>>, slug |-> None]

AssetPathsOf(node) == {node.assets[i].path : i \in DOMAIN node.assets}

\* ids and names arrive stripped and locales lower-cased from
\* parse_categories_detailed; slug = None stands for a node without "slug"
_index_add_category_item(cat_index, item) ==
    LET cid  == IF Falsy(item.id) THEN "" ELSE item.id
        name == IF Falsy(item.name) THEN "" ELSE item.name
        rel  == IF Falsy(item.asset_rel) THEN None ELSE item.asset_rel
        loc  == IF Falsy(item.locale) THEN "en" ELSE item.locale
        node == IF cid \in DOMAIN cat_index THEN cat_index[cid] ELSE NewNode(cid)
        withLabel ==
            IF name # ""
            THEN [node EXCEPT !.labels =
                     [l \in DOMAIN node.labels \cup {loc} |->
                         IF l = loc THEN name ELSE node.labels[l]]]
            ELSE node
        withAsset ==
            IF rel # None /\ rel \notin AssetPathsOf(withLabel)
            THEN [withLabel EXCEPT !.assets = Append(@, [path |-> rel, locale |-> loc])]
            ELSE withLabel
        withSlug ==
            IF withAsset.slug = None /\ name # ""
            THEN [withAsset EXCEPT !.slug = Slug(name)]
            ELSE withAsset
    IN  IF cid = "" THEN cat_index
        ELSE [c \in DOMAIN cat_index \cup {cid} |-> IF c = cid THEN withSlug ELSE cat_index[c]]

RECURSIVE AddCategoryItems(_, _)
AddCategoryItems(cat_index, items) ==
    IF items = <<>> THEN cat_index
    ELSE AddCategoryItems(_index_add_category_item(cat_index, Head(items)), Tail(items))

\* the registry part of merge_variant_into_unit_json: nothing is loaded or
\* saved when the record carries no detailed categories
update_category_index(cat_index, cat_items) ==
    IF cat_items = <<>> THEN cat_index ELSE AddCategoryItems(cat_index, cat_items)

-----------------------------------------------------------------------------
(* Text of a page.  A Python string is the sequence of its characters, each *)
(* a one-character TLA+ string; a line list is a sequence of such strings.  *)

IsSpace(c) == c = " "

\* s.strip()
RECURSIVE LStrip(_)
LStrip(s) == IF s # <<>> /\ IsSpace(Head(s)) THEN LStrip(Tail(s)) ELSE s

RECURSIVE RStrip(_)
RStrip(s) ==
    IF s # <<>> /\ IsSpace(s[Len(s)]) THEN RStrip(SubSeq(s, 1, Len(s) - 1)) ELSE s

Strip(s) == RStrip(LStrip(s))

\* sep.join(parts)
RECURSIVE Join(_, _)
Join(parts, sep) ==
    IF parts = <<>> THEN <<>>
    ELSE IF Len(parts) = 1 THEN parts[1]
    ELSE parts[1] \o sep \o Join(Tail(parts), sep)

\* first position from i on that holds no space, Len(s) + 1 when there is none
RECURSIVE SkipSpaces(_, _)
SkipSpaces(s, i) ==
    IF i <= Len(s) /\ IsSpace(s[i]) THEN SkipSpaces(s, i + 1) ELSE i

\* re.sub(r"\s*;\s*", "; ", s), scanning from position i
RECURSIVE SubSemicolons(_, _)
SubSemicolons(s, i) ==
    IF i > Len(s) THEN <<>>
    ELSE LET j == SkipSpaces(s, i)
         IN  IF j <= Len(s) /\ s[j] = ";"
             THEN <<";", " ">> \o SubSemicolons(s, SkipSpaces(s, j + 1))
             ELSE <<s[i]>> \o SubSemicolons(s, i + 1)

-----------------------------------------------------------------------------
(* render_passive_effect_with_markers *)

\* context of a line: `<<>>` is None; current_context is never the empty string
NoContext == <<>>

MarkerOf(it) ==
    IF it.once THEN <<"(", "O", "n", "c", "e", ")", " ">>
    ELSE IF it.permanent THEN <<"(", "F", "o", "r", "e", "v", "e", "r", ")", " ">>
    ELSE <<>>

\* variant: the label is put before every line that has a context
RenderStep_everyline(it, last_ctx) ==
    LET seg == Strip(MarkerOf(it) \o it.text)
        ctx == it.context
    IN  [seg |-> IF ctx # NoContext THEN ctx \o <<":", " ">> \o seg ELSE seg,
         last_ctx |-> ctx]

\* one pass of the loop: the segment appended and last_ctx after it
RenderStep(it, last_ctx) ==
    LET seg == Strip(MarkerOf(it) \o it.text)
        ctx == it.context
    IN  IF ctx # last_ctx
        THEN [seg |-> IF ctx # NoContext THEN ctx \o <<":", " ">> \o seg ELSE seg,
              last_ctx |-> ctx]
        ELSE [seg |-> seg, last_ctx |-> last_ctx]

\* the loop over lines: the list `rendered`
RECURSIVE RenderLines(_, _)
RenderLines(lines, last_ctx) ==
    IF lines = <<>> THEN <<>>
    ELSE LET r == RenderStep(Head(lines), last_ctx)
         IN  <<r.seg>> \o RenderLines(Tail(lines), r.last_ctx)

render_passive_effect_with_markers(lines) ==
    Strip(SubSemicolons(Join(RenderLines(lines, NoContext), <<";", " ">>), 1))

-----------------------------------------------------------------------------
(* The records scrape_one_variant hands to the merge *)

MaxVariants == 3     \* variants one family folder holds in the runs explored
MaxKeyStep  == 1     \* highest enhancement step among the merged records

BaseForm    == 1
FamilyForms == {1, 2}
ExternalId  == 3     \* a card id no variant of the family carries

CardUrl(f) == "https://dokkaninfo.com/cards/" \o ToString(f)

DisplayNameOf(f) == "Card " \o ToString(f)

\* the key scrape_all_variants_for_base gives to form f at step st
FamilyKey(f, st) ==
    IF f = BaseForm
    THEN (IF st = 0 THEN build_variant_key(FALSE, 0)
          ELSE "eza_step_" \o ToString(st))
    ELSE build_form_variant_key(f, st # 0, st)

\* kit.categories_detailed: every page of the explored family shows the one
\* category label
CategoriesOf(f) ==
    <<[id |-> "50", name |-> NameDeeds, asset_rel |-> RelDeedsEn, locale |-> "en"]>>

\* unit_fields and variant_record as scrape_variant_from_html and
\* scrape_one_variant assemble them; the detailed categories of the record's
\* kit are kept beside it
ScrapedInput(f, st, key, disp, rar, hint, super, from, to, paths) ==
    [unit_fields |->
        [unit_id |-> f, form_id |-> f, display_name |-> disp, rarity |-> rar,
         type |-> "AGL", source_base_url |-> CardUrl(f),
         assets_index |-> _prune_assets_index(build_assets_index(paths))],
     variant_record |->
        [key |-> key, form_id |-> f, step |-> st, is_super_eza |-> super,
         rarity |-> IF Falsy(rar) THEN hint ELSE rar,
         rarity_rank |-> RARITY_RANK(rar),
         awakening |-> [from_ids |-> from, to_ids |-> to]],
     categories_detailed |-> CategoriesOf(f)]

\* what the pages of the explored family show
RarityOf(f) == IF f = BaseForm THEN "UR" ELSE "LR"

PathsOf(f, st) ==
    IF f = BaseForm
    THEN (IF st = 0 THEN <<PathThumb, PathBg1, PathIcon>> ELSE <<PathChar1, PathBg1>>)
    ELSE (IF st = 0 THEN <<PathBg2, PathThumb, PathBg2>> ELSE <<>>)

\* the awakening strips the page of form f at step st can show
AwakeningPool(f, st) ==
    LET o == CHOOSE x \in FamilyForms : x # f
    IN  IF st = 0
        THEN {[from_ids |-> <<>>, to_ids |-> <<>>],
              [from_ids |-> <<ExternalId>>, to_ids |-> <<>>],
              [from_ids |-> <<>>, to_ids |-> <<o>>],
              [from_ids |-> <<>>, to_ids |-> <<ExternalId>>],
              [from_ids |-> <<>>, to_ids |-> <<ExternalId, o>>]}
        ELSE {[from_ids |-> <<>>, to_ids |-> <<>>],
              [from_ids |-> <<>>, to_ids |-> <<ExternalId>>]}

InputsAt(f, st) ==
    {ScrapedInput(f, st, FamilyKey(f, st), DisplayNameOf(f), RarityOf(f), None, FALSE,
                  awk.from_ids, awk.to_ids, PathsOf(f, st)) :
        awk \in AwakeningPool(f, st)}

InputsOf(f) == UNION {InputsAt(f, st) : st \in 0..MaxKeyStep}

Inputs == UNION {InputsOf(f) : f \in FamilyForms}

IndexEntries(index) == UNION {Range(index[c]) : c \in Categories}

-----------------------------------------------------------------------------
(* Specification Spec: merges into one family folder *)

MergeIdle ==
    /\ file = "absent" /\ doc = EmptyDoc /\ lastKey = None /\ mergedAssets = {}
OrderIdle ==
    /\ docB = EmptyDoc /\ doneA = {} /\ doneB = {}
StepIdle ==
    /\ pc = "idle" /\ page = NoPage /\ ezaPage = NoPage /\ rarity = None
    /\ steps = <<>> /\ maxStep = 0 /\ idx = 0 /\ fails = 0
WalkIdle ==
    /\ graph = <<>> /\ cur = 0 /\ seen = {} /\ visits = <<>> /\ wpc = "idle"
RegIdle ==
    /\ catIndex = <<>>
RaceIdle ==
    /\ job = <<>> /\ snap = <<>> /\ rpc = <<>>
TextIdle ==
    /\ fn = "idle" /\ arg = <<>> /\ out = <<>>
ExtIdle == RaceIdle /\ TextIdle

Init == MergeIdle /\ OrderIdle /\ StepIdle /\ WalkIdle /\ RegIdle /\ ExtIdle

Merge ==
    \E inp \in Inputs :
        LET current == LoadDoc(file, doc)
            key     == inp.variant_record.key
        IN  /\ \/ Len(current.variants) < MaxVariants
               \/ KeyIndex(current.variants, key) # 0
            /\ doc' = merge_variant_into_unit_json(current, inp.unit_fields,
                                                   inp.variant_record)
            /\ file' = "ok"
            /\ lastKey' = key
            /\ mergedAssets' = mergedAssets \cup IndexEntries(inp.unit_fields.assets_index)
            /\ catIndex' = update_category_index(catIndex, inp.categories_detailed)
            /\ UNCHANGED <<orderVars, stepVars, walkVars, extVars>>

Next == Merge

Spec == Init /\ [][Next]_vars

-----------------------------------------------------------------------------
(* Properties of the merge, checked under Spec *)

Stored == LoadDoc(file, doc)

\* what the scrape put into a variant record, without the derived annotations
ScrapedPart(v) ==
    [key |-> v.key, form_id |-> v.form_id, step |-> v.step,
     is_super_eza |-> v.is_super_eza, rarity |-> v.rarity,
     rarity_rank |-> v.rarity_rank, awakening |-> v.awakening]

\* C1: after any number of merges into a family that started absent, no two
\* variant records of the family document share a key.
C1_KeyUniqueness ==
    \A i, j \in DOMAIN Stored.variants :
        i # j => Stored.variants[i].key # Stored.variants[j].key

\* a full document whose first entry was just merged again
C1_Witness ==
    /\ file = "ok"
    /\ Len(doc.variants) = MaxVariants
    /\ lastKey = doc.variants[1].key

\* C2: merging a record that has just been merged a second time, with the same
\* unit fields and asset index, leaves the document as the first merge left it
\* (variants, assets_index and annotations).
C2_IdempotentMerge ==
    \A inp \in Inputs :
        (\/ Len(Stored.variants) < MaxVariants
         \/ KeyIndex(Stored.variants, inp.variant_record.key) # 0)
        => LET once == merge_variant_into_unit_json(Stored, inp.unit_fields,
                                                     inp.variant_record)
           IN  merge_variant_into_unit_json(once, inp.unit_fields,
                                            inp.variant_record) = once

\* a document holding several variants and assets, where the record merged
\* last is merged again
C2_Witness ==
    /\ file = "ok"
    /\ Len(doc.variants) >= 2
    /\ doc.assets_index["card_art"] # <<>>
    /\ \E inp \in Inputs :
          /\ inp.variant_record.key = lastKey
          /\ IndexEntries(inp.unit_fields.assets_index) # {}
          /\ merge_variant_into_unit_json(doc, inp.unit_fields,
                                          inp.variant_record) = doc

\* C7 as claimed: the chain head annotated on every variant is the form id of
\* a variant of the same document.
C7_HeadInDocument ==
    \A i \in DOMAIN Stored.variants :
        Stored.variants[i].awaken_chain_head_id \in VarIds(Stored.variants)

\* C7 amended: a chain head is the form id of a variant of the document, or
\* an id listed by a variant none of whose to_ids is in the document; a
\* variant listing an id of the document is never left through an outside id.
C7_HeadInDocumentOrListedOutside ==
    \A i \in DOMAIN Stored.variants :
        LET head == Stored.variants[i].awaken_chain_head_id
            ids  == VarIds(Stored.variants)
        IN  \/ head \in ids
            \/ \E f \in ids :
                  LET to == Range(var_by_id(Stored.variants, f).awakening.to_ids)
                  IN  head \in to /\ to \cap ids = {}

\* a variant listing an outside id next to a form of the document, whose
\* chain nevertheless ends outside the document
C7_Witness ==
    /\ file = "ok"
    /\ \E i \in DOMAIN doc.variants :
          /\ Len(doc.variants[i].awakening.to_ids) = 2
          /\ doc.variants[i].awaken_chain_head_id \notin VarIds(doc.variants)

\* C9: an upsert of a key the family already holds replaces that entry at its
\* position and keeps the length; an upsert of a new key appends one entry;
\* in both cases the other entries keep their position and scraped content.
C9_UpsertFrame ==
    [][LET old == Stored.variants
           new == doc'.variants
           i   == KeyIndex(old, lastKey')
       IN  IF i # 0
           THEN /\ Len(new) = Len(old)
                /\ new[i].key = lastKey'
                /\ \A j \in DOMAIN old :
                      j # i => ScrapedPart(new[j]) = ScrapedPart(old[j])
           ELSE /\ Len(new) = Len(old) + 1
                /\ new[Len(new)].key = lastKey'
                /\ \A j \in DOMAIN old :
                      ScrapedPart(new[j]) = ScrapedPart(old[j])]_vars

\* the entry in the middle of a full document has just been replaced
C9_Witness ==
    /\ file = "ok"
    /\ Len(doc.variants) = 3
    /\ lastKey = doc.variants[2].key

\* C10: the family assets_index holds exactly the entries of all merged
\* per-variant indices, each under its category, and no two entries of a
\* category share a path.
C10_AssetsUnion ==
    /\ IndexEntries(Stored.assets_index) = mergedAssets
    /\ \A c \in Categories :
          LET s == Stored.assets_index[c]
          IN  /\ \A i, j \in DOMAIN s : i # j => s[i].path # s[j].path
              /\ \A i \in DOMAIN s : s[i].category = c

\* three merges with overlapping paths have filled both kept categories
C10_Witness ==
    /\ file = "ok"
    /\ Len(doc.assets_index["card_art"]) = 3
    /\ Len(doc.assets_index["thumbnail"]) = 1

\* some variant of the stored document lists an awakening link
HasLinks ==
    \E i \in DOMAIN Stored.variants :
        \/ Stored.variants[i].awakening.from_ids # <<>>
        \/ Stored.variants[i].awakening.to_ids # <<>>

\* C14: every variant of the written document carries the chain head resolved
\* over the document as it now stands and a flag; with no awakening link in
\* the whole family every flag is set, otherwise the flag is set exactly on
\* the variants whose form id is their chain head.
C14_FullyAwakenedFlag ==
    \A i \in DOMAIN Stored.variants :
        LET v == Stored.variants[i]
        IN  /\ v.awaken_chain_head_id = _chain_head(Stored.variants, v.form_id)
            /\ v.is_fully_awakened \in BOOLEAN
            /\ IF HasLinks
               THEN v.is_fully_awakened <=> (v.form_id = v.awaken_chain_head_id)
               ELSE v.is_fully_awakened

\* a family with links in which one form is the head and another is not
C14_Witness ==
    /\ file = "ok"
    /\ HasLinks
    /\ \E i, j \in DOMAIN doc.variants :
          /\ doc.variants[i].is_fully_awakened
          /\ ~doc.variants[j].is_fully_awakened
          /\ doc.variants[j].awaken_chain_head_id = doc.variants[i].form_id

-----------------------------------------------------------------------------
(* Specification SpecSteps: base scrape, step discovery and the loop over   *)
(* the steps of scrape_all_variants_for_base                                *)

MaxFailures == 1     \* step pages that fail to load in one run

OptionsPool == {<<>>, <<"3", "1">>, <<"Step", "4">>, <<"0">>, <<"8">>}

SinglePool == {None, "Step", "0", "9"}

RarityPool == {None, "UR", "LR"}

PagePool ==
    {[release_block |-> rb, stats_headers |-> sh, multiselect |-> ms,
      options |-> op, single |-> sg, toggle |-> tg, rarity |-> r,
      loaded |-> TRUE] :
        rb \in BOOLEAN, sh \in BOOLEAN, ms \in BOOLEAN, op \in OptionsPool,
        sg \in SinglePool, tg \in BOOLEAN, r \in RarityPool}

\* the eza=true renderings: the toggle and the selector are on the page
EzaPagePool ==
    {pg \in PagePool : pg.toggle /\ pg.multiselect
                        /\ pg.release_block = pg.stats_headers}

\* the merge at the end of scrape_one_variant
MergeInto(inp) ==
    /\ doc' = merge_variant_into_unit_json(LoadDoc(file, doc), inp.unit_fields,
                                           inp.variant_record)
    /\ file' = "ok"
    /\ lastKey' = inp.variant_record.key
    /\ mergedAssets' = mergedAssets \cup IndexEntries(inp.unit_fields.assets_index)
    /\ catIndex' = update_category_index(catIndex, inp.categories_detailed)

InitSteps ==
    /\ MergeIdle /\ OrderIdle /\ WalkIdle /\ RegIdle /\ ExtIdle
    /\ pc = "base"
    /\ page \in PagePool
    /\ ezaPage = NoPage /\ rarity = None
    /\ steps = <<>> /\ maxStep = 0 /\ idx = 0 /\ fails = 0

\* scrape_one_variant(base_url): the navigation fails, or the base variant is
\* merged and the rarity of the family is returned
ScrapeBase ==
    /\ pc = "base"
    /\ \/ /\ pc' = "done"
          /\ UNCHANGED <<mergeVars, regVars, rarity>>
       \/ /\ MergeInto(ScrapedInput(BaseForm, 0, build_variant_key(FALSE, 0),
                                    DisplayNameOf(BaseForm), page.rarity, None,
                                    FALSE, <<>>, <<>>, PathsOf(BaseForm, 0)))
          /\ rarity' = IF Falsy(doc'.rarity) THEN page.rarity ELSE doc'.rarity
          /\ pc' = "discover"
    /\ UNCHANGED <<page, ezaPage, steps, maxStep, idx, fails, orderVars, walkVars,
                   extVars>>

\* steps from the base page; when it yields none and shows the toggle, the
\* eza=true rendering is fetched and read instead
DiscoverSteps ==
    /\ pc = "discover"
    /\ LET first == discover_eza_steps_on_page_soup(page, rarity)
       IN  IF first.steps = <<>> /\ page.toggle
           THEN \/ /\ ezaPage' = NoPage
                   /\ steps' = first.steps /\ maxStep' = first.max_step
                \/ \E pg \in EzaPagePool :
                      /\ pg.rarity = page.rarity
                      /\ ezaPage' = pg
                      /\ steps' = discover_eza_steps_on_page_soup(pg, rarity).steps
                      /\ maxStep' = discover_eza_steps_on_page_soup(pg, rarity).max_step
           ELSE /\ ezaPage' = NoPage
                /\ steps' = first.steps /\ maxStep' = first.max_step
    /\ idx' = 1
    /\ pc' = "steps"
    /\ UNCHANGED <<page, rarity, fails, mergeVars, regVars, orderVars, walkVars,
                   extVars>>

\* one pass of `for st in steps`: scrape_one_variant of the step page, which
\* fails to load or merges the variant eza_step_<st>
ScrapeStep ==
    /\ pc = "steps"
    /\ idx <= Len(steps)
    /\ LET st == steps[idx]
       IN  \/ /\ fails < MaxFailures
              /\ fails' = fails + 1
              /\ UNCHANGED <<mergeVars, regVars>>
           \/ /\ MergeInto(ScrapedInput(BaseForm, st, "eza_step_" \o ToString(st),
                                        DisplayNameOf(BaseForm), page.rarity, rarity,
                                        IsSuperEza(st, maxStep), <<>>, <<>>,
                                        PathsOf(BaseForm, st)))
              /\ UNCHANGED fails
    /\ idx' = idx + 1
    /\ UNCHANGED <<pc, page, ezaPage, rarity, steps, maxStep, orderVars, walkVars,
                   extVars>>

StepsDone ==
    /\ pc = "steps"
    /\ idx > Len(steps)
    /\ pc' = "done"
    /\ UNCHANGED <<page, ezaPage, rarity, steps, maxStep, idx, fails,
                   mergeVars, regVars, orderVars, walkVars, extVars>>

NextSteps == ScrapeBase \/ DiscoverSteps \/ ScrapeStep \/ StepsDone

SpecSteps == InitSteps /\ [][NextSteps]_vars

-----------------------------------------------------------------------------
(* Properties of the step discovery, checked under SpecSteps *)

\* the page the step list was read from
PageRead == IF ezaPage.loaded THEN ezaPage ELSE page

Discovered == pc \in {"steps", "done"}

\* C3: when the page read shows neither an enhancement release-date block nor
\* enhanced-tier stat columns, the discovery used for the family returns no
\* step and no eza_step_<n> variant is merged, whatever selector or toggle
\* markup the page carries.
C3_NoEvidenceClosure ==
    (Discovered /\ ~has_eza_evidence(PageRead)) =>
        /\ steps = <<>>
        /\ \A i \in DOMAIN Stored.variants : Stored.variants[i].step = 0

\* C4: a non-empty discovered step list is 1, 2, ..., max in this order.
C4_StepsContiguous ==
    (Discovered /\ steps # <<>>) =>
        /\ \A i \in DOMAIN steps : steps[i] = i
        /\ maxStep = Len(steps)

\* a dropdown listing 3 before 1 and no 2 has been read as 1, 2, 3
C4_Witness ==
    /\ Discovered
    /\ PageRead.multiselect
    /\ PageRead.options = <<"3", "1">>
    /\ steps = <<1, 2, 3>>

\* the numeric entries of the option list the selector renders
ListedValues(pg) ==
    IF pg.multiselect
    THEN {IntOf(pg.options[i]) : i \in {j \in DOMAIN pg.options : IsDigit(pg.options[j])}}
    ELSE {}

\* the discovery has run (a failed base scrape ends the run before it)
StepsRead == Discovered /\ idx >= 1

\* the selector shows a selected value and no option list
SingleOnly(pg) ==
    /\ pg.multiselect
    /\ ListedValues(pg) = {}
    /\ pg.single # None /\ IsDigit(pg.single)

\* C24: a selector showing only a selected value v gives 1..max(v, 8) for
\* rarity UR and 1..max(v, 4) for rarity LR; a rendered option list with
\* maximum m gives 1..m whatever the rarity.
C24_SingleValueRange ==
    StepsRead =>
        LET pg == PageRead
        IN  /\ (SingleOnly(pg) /\ rarity = "UR")
                  => steps = PyRange1(Max(IntOf(pg.single), 8))
            /\ (SingleOnly(pg) /\ rarity = "LR")
                  => steps = PyRange1(Max(IntOf(pg.single), 4))
            /\ ListedValues(pg) # {}
                  => steps = PyRange1(SetMax(ListedValues(pg)))

\* a UR page whose selector shows 0 and lists nothing is read as 1..8
C24_Witness ==
    /\ StepsRead
    /\ SingleOnly(PageRead) /\ PageRead.single = "0"
    /\ rarity = "UR"
    /\ steps = <<1, 2, 3, 4, 5, 6, 7, 8>>

\* C5: among the step variants of one progression at most one is flagged
\* is_super_eza, and a flagged one is the last step of a progression whose
\* maximum is the cap of its rarity (8 for UR, 4 for LR).
C5_SuperOnlyAtRarityCap ==
    LET vs == Stored.variants
    IN  /\ \A i, j \in DOMAIN vs :
              (vs[i].is_super_eza /\ vs[j].is_super_eza) => i = j
        /\ \A i \in DOMAIN vs :
              vs[i].is_super_eza =>
                  /\ vs[i].step = maxStep
                  /\ maxStep = super_eza_step_for_rarity(vs[i].rarity)

-----------------------------------------------------------------------------
(* Specification SpecOrder: the same records merged into two folders, each  *)
(* in an order of its own                                                   *)

\* one record for each step key, two for each base key
OrderInputs ==
    {inp \in Inputs :
        /\ inp.variant_record.awakening.from_ids = <<>>
        /\ ExternalId \notin Range(inp.variant_record.awakening.to_ids)
        /\ inp.variant_record.step # 0 => inp.variant_record.awakening.to_ids = <<>>}

KeysOf(inps) == {inp.variant_record.key : inp \in inps}

InitOrder == MergeIdle /\ OrderIdle /\ StepIdle /\ WalkIdle /\ RegIdle /\ ExtIdle

MergeA ==
    \E inp \in OrderInputs :
        /\ Cardinality(doneA) < MaxVariants
        /\ inp.variant_record.key \notin KeysOf(doneA)
        /\ doc' = merge_variant_into_unit_json(LoadDoc(file, doc), inp.unit_fields,
                                               inp.variant_record)
        /\ file' = "ok"
        /\ doneA' = doneA \cup {inp}
        /\ catIndex' = update_category_index(catIndex, inp.categories_detailed)
        /\ UNCHANGED <<lastKey, mergedAssets, docB, doneB, stepVars, walkVars, extVars>>

\* docB = EmptyDoc stands for the absent file of the second folder
MergeB ==
    \E inp \in OrderInputs :
        /\ Cardinality(doneB) < MaxVariants
        /\ inp.variant_record.key \notin KeysOf(doneB)
        /\ docB' = merge_variant_into_unit_json(docB, inp.unit_fields,
                                                inp.variant_record)
        /\ doneB' = doneB \cup {inp}
        /\ catIndex' = update_category_index(catIndex, inp.categories_detailed)
        /\ UNCHANGED <<file, doc, lastKey, mergedAssets, doneA, stepVars, walkVars,
                       extVars>>

NextOrder == MergeA \/ MergeB

SpecOrder == InitOrder /\ [][NextOrder]_vars

ScrapedSet(variants) == {ScrapedPart(variants[i]) : i \in DOMAIN variants}

\* C8 as claimed: two folders that received the same records hold the same
\* document, whatever the two arrival orders were.
C8_SameDocument ==
    doneA = doneB => Stored = docB

\* C8 amended: two folders that received the same records (pairwise distinct
\* keys) hold the same number of variants, the same scraped record under each
\* key and the same assets_index; the position of a variant in the list
\* follows the arrival order.
C8_SameRecordsAndAssets ==
    doneA = doneB =>
        /\ Len(Stored.variants) = Len(docB.variants)
        /\ ScrapedSet(Stored.variants) = ScrapedSet(docB.variants)
        /\ Stored.assets_index = docB.assets_index

\* both folders are full, got the same records and list them differently
C8_Witness ==
    /\ doneA = doneB
    /\ Cardinality(doneA) = MaxVariants
    /\ Len(docB.variants) = MaxVariants
    /\ Stored.variants # docB.variants
    /\ Len(docB.assets_index["card_art"]) >= 2

-----------------------------------------------------------------------------
(* Specification SpecWalk: the while loop of _chain_head, pass by pass      *)

MaxVisits == 3       \* the count of visits of an id stops growing here

WalkNodes == {1, 2, 3}
WalkIds   == WalkNodes \cup {4}

\* to_ids lists: up to two distinct ids, the smaller id first
ToIdsLists ==
    {<<>>} \cup {<<a>> : a \in WalkIds}
           \cup {q \in WalkIds \X WalkIds : q[1] < q[2]}

WalkVariant(n, to, rank) ==
    [key |-> FamilyKey(n, 0), form_id |-> n, step |-> 0, is_super_eza |-> FALSE,
     rarity |-> IF rank = 5 THEN "LR" ELSE "UR", rarity_rank |-> rank,
     awakening |-> [from_ids |-> <<>>, to_ids |-> to]]

WalkGraphs ==
    {<<WalkVariant(1, t1, 4), WalkVariant(2, t2, r2), WalkVariant(3, t3, 4)>> :
        t1 \in ToIdsLists, t2 \in ToIdsLists, t3 \in ToIdsLists, r2 \in {4, 5}}

InitWalk ==
    /\ MergeIdle /\ OrderIdle /\ StepIdle /\ RegIdle /\ ExtIdle
    /\ graph \in WalkGraphs
    /\ cur \in WalkNodes
    /\ seen = {}
    /\ visits = [n \in WalkIds |-> IF n = cur THEN 1 ELSE 0]
    /\ wpc = "loop"

\* a pass that moves on to the chosen neighbour
WalkAdvance ==
    /\ wpc = "loop"
    /\ LET r == ChainStep(graph, cur, seen)
       IN  /\ ~r.ret
           /\ cur' = r.cur
           /\ seen' = r.seen
           /\ visits' = [visits EXCEPT ![r.cur] =
                            IF @ < MaxVisits THEN @ + 1 ELSE @]
    /\ UNCHANGED <<graph, wpc, mergeVars, orderVars, stepVars, regVars, extVars>>

\* a pass that returns cur
WalkReturn ==
    /\ wpc = "loop"
    /\ ChainStep(graph, cur, seen).ret
    /\ wpc' = "done"
    /\ UNCHANGED <<graph, cur, seen, visits, mergeVars, orderVars, stepVars,
                   regVars, extVars>>

NextWalk == WalkAdvance \/ WalkReturn

\* the loop is sequential code: a pass that can run does run
SpecWalk == InitWalk /\ [][NextWalk]_vars /\ WF_vars(NextWalk)

\* C6: on every family graph, those with cycles of awakens-to links included,
\* and from every starting variant, the walk ends with an id, and no id is
\* visited more than twice.
C6_WalkTerminates ==
    /\ <>(wpc = "done" /\ cur \in WalkIds)
    /\ [](\A n \in WalkIds : visits[n] <= 2)

\* the walk went round the cycle 1 -> 2 -> 1 and was stopped by the guard
C6_Witness ==
    /\ wpc = "done"
    /\ graph[1].awakening.to_ids = <<2>>
    /\ graph[2].awakening.to_ids = <<1>>
    /\ visits[1] = 2
    /\ cur = 1

-----------------------------------------------------------------------------
(* Specification SpecRegistry: merges whose records carry varying category  *)
(* labels, all feeding the one CATEGORIES_INDEX.json                        *)

MaxCatItems == 2     \* detailed categories one record carries

\* anchors parse_categories_detailed can return: the same category under its
\* English label, under a label image whose path names no locale, under its
\* Japanese label, without alt text and image, and a second category
CatItemPool ==
    {[id |-> "50", name |-> NameDeeds,   asset_rel |-> RelDeedsEn,  locale |-> "en"],
     [id |-> "50", name |-> NameAlt,     asset_rel |-> RelDeedsRaw, locale |-> None],
     [id |-> "50", name |-> NameDeedsJa, asset_rel |-> RelDeedsJa,  locale |-> "ja"],
     [id |-> "50", name |-> "",          asset_rel |-> None,        locale |-> None],
     [id |-> "51", name |-> NameFusion,  asset_rel |-> RelFusion,   locale |-> "en"]}

\* lists without a repeated (id, locale, asset_rel), as the de-duplication of
\* parse_categories_detailed leaves them
CatItemLists ==
    UNION {{s \in [1..n -> CatItemPool] : \A i, j \in 1..n : i # j => s[i] # s[j]} :
              n \in 0..MaxCatItems}

\* the base page of the family, scraped again and again
RegistryInputs ==
    {[inp EXCEPT !.categories_detailed = items] :
        inp \in InputsAt(BaseForm, 0), items \in CatItemLists}

InitRegistry ==
    MergeIdle /\ OrderIdle /\ StepIdle /\ WalkIdle /\ RegIdle /\ ExtIdle

MergeCategories ==
    \E inp \in RegistryInputs :
        /\ MergeInto(inp)
        /\ UNCHANGED <<orderVars, stepVars, walkVars, extVars>>

NextRegistry == MergeCategories

SpecRegistry == InitRegistry /\ [][NextRegistry]_vars

\* C11: a merge never removes a category id from the registry and never
\* removes or changes a locale label or an asset entry of a category the
\* registry already holds; it only adds.
C11_RegistryAdditive ==
    [][\A c \in DOMAIN catIndex :
          /\ c \in DOMAIN catIndex'
          /\ catIndex'[c].id = catIndex[c].id
          /\ \A l \in DOMAIN catIndex[c].labels :
                /\ l \in DOMAIN catIndex'[c].labels
                /\ catIndex'[c].labels[l] = catIndex[c].labels[l]
          /\ \A i \in DOMAIN catIndex[c].assets :
                /\ i \in DOMAIN catIndex'[c].assets
                /\ catIndex'[c].assets[i] = catIndex[c].assets[i]]_vars

-----------------------------------------------------------------------------
(* Specification SpecRace: two writers merge one record each into the same  *)
(* family folder; the read of METADATA.json and its write are separate      *)
(* steps of merge_variant_into_unit_json                                    *)

Writers == {"A", "B"}

Other(w) == CHOOSE v \in Writers : v # w

\* the document an earlier run left in the folder
PriorInput ==
    ScrapedInput(2, 0, FamilyKey(2, 0), DisplayNameOf(2), RarityOf(2), None, FALSE,
                 <<>>, <<>>, PathsOf(2, 0))

PriorDoc ==
    merge_variant_into_unit_json(EmptyDoc, PriorInput.unit_fields,
                                 PriorInput.variant_record)

\* the two writers scrape pages of the base form at different steps
RaceJobs ==
    {j \in [Writers -> InputsOf(BaseForm)] :
        j["A"].variant_record.key # j["B"].variant_record.key}

InitRace ==
    /\ file \in {"absent", "corrupt", "ok"}
    /\ doc = IF file = "absent" THEN EmptyDoc ELSE PriorDoc
    /\ catIndex = IF file = "absent" THEN <<>>
                  ELSE update_category_index(<<>>, PriorInput.categories_detailed)
    /\ lastKey = None /\ mergedAssets = {}
    /\ OrderIdle /\ StepIdle /\ WalkIdle /\ TextIdle
    /\ job \in RaceJobs
    /\ snap = [w \in Writers |-> [file |-> "unread", doc |-> EmptyDoc, after |-> {}]]
    /\ rpc = [w \in Writers |-> "start"]

\* the head of the merge: the file is read and parsed; `after` notes which
\* writers had finished by then
ReadDoc(w) ==
    /\ rpc[w] = "start"
    /\ snap' = [snap EXCEPT ![w] =
                   [file |-> file, doc |-> LoadDoc(file, doc),
                    after |-> {v \in Writers : rpc[v] = "done"}]]
    /\ rpc' = [rpc EXCEPT ![w] = "loaded"]
    /\ UNCHANGED <<mergeVars, regVars, job, orderVars, stepVars, walkVars, textVars>>

\* the rest of the merge, computed from what was read, and the write
WriteDoc(w) ==
    /\ rpc[w] = "loaded"
    /\ doc' = merge_variant_into_unit_json(snap[w].doc, job[w].unit_fields,
                                           job[w].variant_record)
    /\ file' = "ok"
    /\ lastKey' = job[w].variant_record.key
    /\ mergedAssets' = mergedAssets \cup IndexEntries(job[w].unit_fields.assets_index)
    /\ catIndex' = update_category_index(catIndex, job[w].categories_detailed)
    /\ rpc' = [rpc EXCEPT ![w] = "done"]
    /\ UNCHANGED <<job, snap, orderVars, stepVars, walkVars, textVars>>

NextRace == \E w \in Writers : ReadDoc(w) \/ WriteDoc(w)

SpecRace == InitRace /\ [][NextRace]_vars

-----------------------------------------------------------------------------
(* Properties of the read and the write, checked under SpecRace *)

\* C12: a merge that found METADATA.json absent or unparsable completes: it
\* writes a document whose top-level fields are the incoming unit fields and
\* whose variants are exactly the incoming record.
C12_DamagedDocumentReseeded ==
    [][\A w \in Writers :
          (/\ rpc[w] = "loaded" /\ rpc'[w] = "done"
           /\ snap[w].file \in {"absent", "corrupt"})
          => /\ file' = "ok"
             /\ doc'.unit_id = job[w].unit_fields.unit_id
             /\ doc'.form_id = job[w].unit_fields.form_id
             /\ doc'.display_name = job[w].unit_fields.display_name
             /\ doc'.rarity = job[w].unit_fields.rarity
             /\ doc'.type = job[w].unit_fields.type
             /\ doc'.source_base_url = job[w].unit_fields.source_base_url
             /\ Len(doc'.variants) = 1
             /\ ScrapedPart(doc'.variants[1]) = job[w].variant_record
             /\ IndexEntries(doc'.assets_index)
                    = IndexEntries(job[w].unit_fields.assets_index)]_vars

\* a writer that read the unparsable file has written last
C12_Witness ==
    \E w \in Writers :
        /\ rpc[w] = "done"
        /\ snap[w].file = "corrupt"
        /\ lastKey = job[w].variant_record.key
        /\ Len(doc.variants) = 1
        /\ doc.variants[1].key = lastKey

BothDone == \A w \in Writers : rpc[w] = "done"

\* one writer read the file after the other had written it
Serialized == \E w \in Writers : Other(w) \in snap[w].after

LastWriter == CHOOSE w \in Writers : job[w].variant_record.key = lastKey

DocKeys == {doc.variants[i].key : i \in DOMAIN doc.variants}

\* C13: when the two merges ran one after the other, in either order, the
\* document holds the variant and the asset entries of both writers; when
\* both read before either wrote, the document lacks the variant of the
\* writer that wrote first and holds no asset entry but those the last writer
\* read or brought.
C13_LostUpdateOnlyWhenInterleaved ==
    BothDone =>
        IF Serialized
        THEN \A w \in Writers :
                /\ job[w].variant_record.key \in DocKeys
                /\ IndexEntries(job[w].unit_fields.assets_index)
                       \subseteq IndexEntries(doc.assets_index)
        ELSE LET l == LastWriter
             IN  /\ job[Other(l)].variant_record.key \notin DocKeys
                 /\ IndexEntries(doc.assets_index)
                        \subseteq (IndexEntries(snap[l].doc.assets_index)
                                   \cup IndexEntries(job[l].unit_fields.assets_index))

\* both read the stored document, both wrote, and the variant and an asset
\* entry of the first writer are gone
C13_Witness ==
    /\ BothDone
    /\ \A w \in Writers : snap[w].file = "ok" /\ snap[w].after = {}
    /\ job[Other(LastWriter)].variant_record.key \notin DocKeys
    /\ \E e \in IndexEntries(job[Other(LastWriter)].unit_fields.assets_index) :
          e \notin IndexEntries(doc.assets_index)

-----------------------------------------------------------------------------
(* Specification SpecText: the text functions of scrape_variant_from_html,  *)
(* each applied once to a fragment of a page                                *)

MaxLines == 3        \* passive lines of one page

CtxA == <<"A">>
CtxB == <<"B">>

\* line texts as _li_text_with_inline_markers condenses them
TextX == <<"x">>
TextY == <<"y", " ", ";", "z">>

PassiveLinePool ==
    {[text |-> t, context |-> c, once |-> m[1], permanent |-> m[2]] :
        t \in {TextX, TextY}, c \in {NoContext, CtxA, CtxB},
        m \in {<<FALSE, FALSE>>, <<TRUE, FALSE>>, <<FALSE, TRUE>>}}

PassiveLineLists == UNION {[1..n -> PassiveLinePool] : n \in 0..MaxLines}

Pending == [done |-> FALSE, val |-> <<>>]

Returned(v) == [done |-> TRUE, val |-> v]

InitRender ==
    /\ fn = "render_passive_effect_with_markers"
    /\ arg \in PassiveLineLists

ApplyRender ==
    /\ fn = "render_passive_effect_with_markers"
    /\ ~out.done
    /\ out' = Returned(render_passive_effect_with_markers(arg))
    /\ UNCHANGED <<fn, arg, mergeVars, regVars, orderVars, stepVars, walkVars, raceVars>>

\* the lines that open a run of context ctx
RunStarts(lines, ctx) ==
    {i \in DOMAIN lines :
        lines[i].context = ctx /\ (i = 1 \/ lines[i - 1].context # ctx)}

CountIn(s, c) == Cardinality({i \in DOMAIN s : s[i] = c})

\* the segments the runs call for: label, colon and text on the first line of
\* a run with a context, the text alone elsewhere
SegmentsByRun(lines) ==
    [i \in DOMAIN lines |->
        LET body == Strip(MarkerOf(lines[i]) \o lines[i].text)
        IN  IF lines[i].context # NoContext /\ i \in RunStarts(lines, lines[i].context)
            THEN lines[i].context \o <<":", " ">> \o body
            ELSE body]

\* C15: the rendered string carries each context label once for every
\* contiguous run of lines of that context, before the first line of the run
\* only, and the marked texts of all lines in their order, joined by "; ".
C15_LabelOncePerRun ==
    (fn = "render_passive_effect_with_markers" /\ out.done)
    => /\ \A ctx \in {CtxA, CtxB} :
             CountIn(out.val, ctx[1]) = Cardinality(RunStarts(arg, ctx))
       /\ out.val = Strip(SubSemicolons(Join(SegmentsByRun(arg), <<";", " ">>), 1))

\* contexts A, A, B: "A: x; y; z; B: x"
C15_Witness ==
    /\ fn = "render_passive_effect_with_markers" /\ out.done
    /\ arg = <<[text |-> TextX, context |-> CtxA, once |-> FALSE, permanent |-> FALSE],
               [text |-> TextY, context |-> CtxA, once |-> FALSE, permanent |-> FALSE],
               [text |-> TextX, context |-> CtxB, once |-> FALSE, permanent |-> FALSE]>>
    /\ out.val = <<"A", ":", " ", "x", ";", " ", "y", ";", " ", "z", ";", " ",
                   "B", ":", " ", "x">>

-----------------------------------------------------------------------------
(* parse_passive_lines_from_dom.  The descendants of the passive box are a  *)
(* sequence of strong/b and li elements; here a text is the sequence of its *)
(* words, lower-cased as the (?i) matches see it.  The second value         *)
(* returned, the consolidated string, is dropped by the caller.             *)

MaxNodes == 3        \* strong, b and li elements inside the passive box

PASSIVE_ICON_ONCE  == "passive_skill_dialog_icon_01"
PASSIVE_ICON_PERMA == "passive_skill_dialog_icon_02"

BasicLabel     == <<"basic", "effect(s)">>
TurnLabel      == <<"at", "start", "of", "turn">>
EntryLabel     == <<"upon", "the", "character's", "entry">>
PlainWords     == <<"atk", "+50%">>
EntranceWords  == <<"activates", "the", "entrance", "animation">>

\* s[i..] starts with the words of pat
StartsAt(s, i, pat) ==
    /\ i + Len(pat) - 1 <= Len(s)
    /\ \A k \in DOMAIN pat : s[i + k - 1] = pat[k]

\* ENTRANCE_REGEX.search(s)
EntranceSearch(s) ==
    \E i \in DOMAIN s : StartsAt(s, i, EntranceWords) \/ StartsAt(s, i, EntryLabel)

\* one element of the walk: the state after it and the line it appends, if any
PassiveStep(node, current_context, in_basic_scope) ==
    IF node.tag = "strong"
    THEN IF node.text = <<>>
         THEN [context |-> current_context, basic |-> in_basic_scope, line |-> <<>>]
         ELSE IF node.text = BasicLabel
         THEN [context |-> current_context, basic |-> TRUE, line |-> <<>>]
         ELSE [context |-> node.text, basic |-> FALSE, line |-> <<>>]
    ELSE LET icon_once  == \E k \in DOMAIN node.icons : node.icons[k] = PASSIVE_ICON_ONCE
             icon_perma == \E k \in DOMAIN node.icons : node.icons[k] = PASSIVE_ICON_PERMA
             permanent  == icon_perma \/ (~icon_once /\ ~icon_perma /\ in_basic_scope)
             ctx_join   == current_context \o node.text
             once       == icon_once \/ (~icon_once /\ EntranceSearch(ctx_join))
         IN  [context |-> current_context, basic |-> in_basic_scope,
              line |-> IF node.text = <<>> THEN <<>>
                       ELSE <<[text |-> node.text, context |-> current_context,
                               once |-> once, permanent |-> permanent,
                               icons |-> node.icons]>>]

RECURSIVE PassiveWalk(_, _, _)
PassiveWalk(nodes, current_context, in_basic_scope) ==
    IF nodes = <<>> THEN <<>>
    ELSE LET r == PassiveStep(Head(nodes), current_context, in_basic_scope)
         IN  r.line \o PassiveWalk(Tail(nodes), r.context, r.basic)

\* the list `lines`
parse_passive_lines_from_dom(nodes) == PassiveWalk(nodes, NoContext, FALSE)

PassiveNodePool ==
    {[tag |-> "strong", text |-> t, icons |-> <<>>] :
        t \in {<<>>, BasicLabel, TurnLabel, EntryLabel}}
    \cup
    {[tag |-> "li", text |-> t, icons |-> ic] :
        t \in {<<>>, PlainWords, EntranceWords},
        ic \in {<<>>, <<PASSIVE_ICON_ONCE>>, <<PASSIVE_ICON_PERMA>>}}

PassiveBoxes == UNION {[1..n -> PassiveNodePool] : n \in 0..MaxNodes}

InitPassive ==
    /\ fn = "parse_passive_lines_from_dom"
    /\ arg \in PassiveBoxes

ApplyPassive ==
    /\ fn = "parse_passive_lines_from_dom"
    /\ ~out.done
    /\ out' = Returned(parse_passive_lines_from_dom(arg))
    /\ UNCHANGED <<fn, arg, mergeVars, regVars, orderVars, stepVars, walkVars, raceVars>>

\* C16: no line without a marker icon carries both flags, and a line that is
\* once-only without the once icon carries no permanent flag, whether that
\* flag came from the icon or from the basic scope.
C16_DefaultsSetOneFlag ==
    (fn = "parse_passive_lines_from_dom" /\ out.done)
    => \A i \in DOMAIN out.val :
          LET it == out.val[i]
          IN  /\ it.icons = <<>> => ~(it.once /\ it.permanent)
              /\ (it.once /\ it.icons # <<PASSIVE_ICON_ONCE>>) => ~it.permanent

-----------------------------------------------------------------------------
(* _split_sections.  The page text is the sequence of its lines; a line is  *)
(* the sequence of its words and of the blanks between them.                *)

MaxTextLines == 4    \* lines of the scoped page text

HdrLeader   == <<"Leader", " ", "Skill">>
HdrSuper    == <<"Super", " ", "Attack">>
HdrUltra    == <<"Ultra", " ", "Super", " ", "Attack">>
HdrPassive  == <<"Passive", " ", "Skill">>
HdrActive   == <<"Active", " ", "Skill">>
HdrActCond  == <<"Activation", " ", "Condition(s)">>
HdrTransCond == <<"Transformation", " ", "Condition(s)">>
HdrLinks    == <<"Link", " ", "Skills">>
HdrCats     == <<"Categories">>
HdrStats    == <<"Stats">>

HEADERS ==
    {HdrLeader, HdrSuper, HdrUltra, HdrPassive, HdrActive, HdrActCond,
     HdrTransCond, HdrLinks, HdrCats, HdrStats}

\* re.sub(r"\s+", " ", s)
RECURSIVE CondenseRuns(_)
CondenseRuns(s) ==
    IF s = <<>> THEN <<>>
    ELSE IF Len(s) >= 2 /\ IsSpace(s[1]) /\ IsSpace(s[2]) THEN CondenseRuns(Tail(s))
    ELSE <<Head(s)>> \o CondenseRuns(Tail(s))

_condense_spaces(s) == Strip(CondenseRuns(s))

\* variant: a line that begins with a label opens the section of that label
HeaderOf_prefix(ln) ==
    IF \E h \in HEADERS : Len(h) <= Len(ln) /\ SubSeq(ln, 1, Len(h)) = h
    THEN LET hs == {h \in HEADERS : Len(h) <= Len(ln) /\ SubSeq(ln, 1, Len(h)) = h}
         IN  <<CHOOSE h \in hs : \A g \in hs : Len(g) <= Len(h)>>
    ELSE <<>>

\* `ln in HEADERS`: the label a condensed line is, if any
HeaderOf(ln) == IF ln \in HEADERS THEN <<ln>> ELSE <<>>

NonEmptyLine(l) == l # <<>>

\* the loop over `indices`, from its i-th entry on; indices are 1-based here
RECURSIVE SectionsFrom(_, _, _, _)
SectionsFrom(lines, indices, i, sections) ==
    IF i > Len(indices) THEN sections
    ELSE LET hdr     == HeaderOf(lines[indices[i]])[1]
             start_i == indices[i]
             end_i   == IF i + 1 <= Len(indices) THEN indices[i + 1] ELSE Len(lines) + 1
             block   == SelectSeq(SubSeq(lines, start_i + 1, end_i - 1), NonEmptyLine)
         IN  SectionsFrom(lines, indices, i + 1,
                          [h \in DOMAIN sections \cup {hdr} |->
                              IF h = hdr THEN block ELSE sections[h]])

\* a dict is a function on its keys
_split_sections(page_text) ==
    LET lines   == [k \in DOMAIN page_text |-> _condense_spaces(page_text[k])]
        IsHdr(k) == HeaderOf(lines[k]) # <<>>
        indices == SelectSeq([k \in DOMAIN lines |-> k], IsHdr)
    IN  SectionsFrom(lines, indices, 1, <<>>)

\* lines of a card page: labels, a label with stray blanks, a line that only
\* contains a label, content, a blank line
TextLinePool ==
    {HdrSuper,
     <<" ", "Super", " ", " ", "Attack", " ">>,
     HdrUltra,
     HdrPassive,
     <<"Super", " ", "Attack", " ", "Lv.10">>,
     <<"Kamehameha">>,
     <<" ">>}

PageTexts == UNION {[1..n -> TextLinePool] : n \in 0..MaxTextLines}

InitSplit ==
    /\ fn = "_split_sections"
    /\ arg \in PageTexts

ApplySplit ==
    /\ fn = "_split_sections"
    /\ ~out.done
    /\ out' = Returned(_split_sections(arg))
    /\ UNCHANGED <<fn, arg, mergeVars, regVars, orderVars, stepVars, walkVars, raceVars>>

\* the trimmed lines of the text and the places where label h is a whole line
TrimmedLines(text) == [k \in DOMAIN text |-> _condense_spaces(text[k])]

LabelLines(text) == {k \in DOMAIN text : TrimmedLines(text)[k] \in HEADERS}

OccursAt(text, h) == {k \in DOMAIN text : TrimmedLines(text)[k] = h}

\* the non-empty lines strictly between label line k and the next label line
BlockAfter(text, k) ==
    LET later == {j \in LabelLines(text) : j > k}
        stop  == IF later = {} THEN Len(text) + 1
                 ELSE CHOOSE j \in later : \A m \in later : j <= m
    IN  SelectSeq(SubSeq(TrimmedLines(text), k + 1, stop - 1), NonEmptyLine)

\* C17 as stated: every line that is a label maps the label to the non-empty
\* lines between that line and the next label line; a label that is no whole
\* line has no entry.
C17_EveryLabelLineMapped ==
    (fn = "_split_sections" /\ out.done)
    => /\ \A h \in HEADERS : OccursAt(arg, h) = {} <=> h \notin DOMAIN out.val
       /\ \A k \in LabelLines(arg) :
             out.val[TrimmedLines(arg)[k]] = BlockAfter(arg, k)

\* C17, amended: a label that is a whole trimmed line maps to the non-empty
\* lines between the LAST line that is this label and the next label line; a
\* label that is no whole line, were it part of a longer one, has no entry.
C17_LastLabelLineMapped ==
    (fn = "_split_sections" /\ out.done)
    => \A h \in HEADERS :
          IF OccursAt(arg, h) = {} THEN h \notin DOMAIN out.val
          ELSE /\ h \in DOMAIN out.val
               /\ out.val[h] = BlockAfter(arg, SetMax(OccursAt(arg, h)))

\* "Ultra Super Attack" and "Super Attack Lv.10" hold the label Super Attack
\* but are not it; the label line itself comes with stray blanks
C17_Witness ==
    /\ fn = "_split_sections" /\ out.done
    /\ arg = << <<"Super", " ", "Attack", " ", "Lv.10">>,
                <<" ", "Super", " ", " ", "Attack", " ">>,
                <<"Kamehameha">>,
                HdrUltra >>
    /\ DOMAIN out.val = {HdrSuper, HdrUltra}
    /\ out.val[HdrSuper] = << <<"Kamehameha">> >>
    /\ out.val[HdrUltra] = <<>>

-----------------------------------------------------------------------------
(* _text_before_after_step_scope and the choice of page_text.  The document *)
(* is the sequence root.descendants of its text nodes and div.multiselect   *)
(* elements; a text stream is the list of strings joined by "\n".           *)

MaxDomNodes == 4     \* text nodes and step selectors of one document

IsText(node) == node.kind = "text"

IsBlank(txt) == Strip(txt) = <<>>

\* root.get_text("\n", strip=True)
GetText(nodes) ==
    LET Visible(node) == IsText(node) /\ ~IsBlank(node.txt)
        kept == SelectSeq(nodes, Visible)
    IN  [k \in DOMAIN kept |-> Strip(kept[k].txt)]

\* position of soup.select_one("div.multiselect"), 0 when there is none
StepNodeAt(nodes) ==
    IF \E k \in DOMAIN nodes : ~IsText(nodes[k])
    THEN CHOOSE k \in DOMAIN nodes :
            ~IsText(nodes[k]) /\ \A j \in 1..(k - 1) : IsText(nodes[j])
    ELSE 0

_text_before_after_step_scope(nodes) ==
    LET at == StepNodeAt(nodes)
        Kept(node) == IsText(node) /\ ~IsBlank(node.txt)
        Texts(part) == LET kept == SelectSeq(part, Kept)
                       IN  [k \in DOMAIN kept |-> kept[k].txt]
    IN  IF at = 0
        THEN [base_text |-> GetText(nodes), eza_text |-> <<>>]
        ELSE [base_text |-> Texts(SubSeq(nodes, 1, at - 1)),
              eza_text  |-> Texts(SubSeq(nodes, at + 1, Len(nodes)))]

\* page_text = (eza_text_scope if req_eza_flag else base_text_scope)
\*             or soup.get_text("\n", strip=True)
ScopedPageText(nodes, req_eza_flag) ==
    LET scopes == _text_before_after_step_scope(nodes)
        chosen == IF req_eza_flag THEN scopes.eza_text ELSE scopes.base_text
    IN  IF chosen = <<>> THEN GetText(nodes) ELSE chosen

DomNodePool ==
    {[kind |-> "text", txt |-> <<"p">>],
     [kind |-> "text", txt |-> <<" ", "q">>],
     [kind |-> "text", txt |-> <<" ">>],
     [kind |-> "multiselect", txt |-> <<>>]}

Documents == UNION {[1..n -> DomNodePool] : n \in 0..MaxDomNodes}

InitScope ==
    /\ fn = "_text_before_after_step_scope"
    /\ arg \in [nodes : Documents, eza : BOOLEAN]

ApplyScope ==
    /\ fn = "_text_before_after_step_scope"
    /\ ~out.done
    /\ out' = Returned(ScopedPageText(arg.nodes, arg.eza))
    /\ UNCHANGED <<fn, arg, mergeVars, regVars, orderVars, stepVars, walkVars, raceVars>>

\* the text nodes before the first step selector (all of them when the
\* document has none) and those after it
NodesBefore(nodes) ==
    IF StepNodeAt(nodes) = 0 THEN DOMAIN nodes ELSE 1..(StepNodeAt(nodes) - 1)

NodesAfter(nodes) ==
    IF StepNodeAt(nodes) = 0 THEN {} ELSE (StepNodeAt(nodes) + 1)..Len(nodes)

\* C18: the text handed to _split_sections is made of text nodes before the
\* step selector alone for a base request and of text nodes after it alone
\* for an enhanced request: as many lines as it has come from that side.
C18_OnlyOwnScope ==
    (fn = "_text_before_after_step_scope" /\ out.done)
    => LET side == IF arg.eza THEN NodesAfter(arg.nodes) ELSE NodesBefore(arg.nodes)
           own  == {k \in side : IsText(arg.nodes[k]) /\ ~IsBlank(arg.nodes[k].txt)}
       IN  /\ Len(out.val) <= Cardinality(own)
           /\ \A i \in DOMAIN out.val :
                 \E k \in own : Strip(arg.nodes[k].txt) = Strip(out.val[i])

-----------------------------------------------------------------------------
(* Names of the super and ultra super attack: the segmented block first,    *)
(* then the re.search over page_text.  page_text is its line list joined by *)
(* "\n"; the texts explored write the labels in one capitalisation.         *)

NewLine == "\n"

IsWs(c) == c = " " \/ c = NewLine

PageString(lines) == Join(lines, <<NewLine>>)

\* s.splitlines(), a trailing empty piece included
RECURSIVE SplitLines(_)
SplitLines(s) ==
    IF \E k \in DOMAIN s : s[k] = NewLine
    THEN LET k == CHOOSE k \in DOMAIN s :
                     s[k] = NewLine /\ \A j \in 1..(k - 1) : s[j] # NewLine
         IN  <<SubSeq(s, 1, k - 1)>> \o SplitLines(SubSeq(s, k + 1, Len(s)))
    ELSE <<s>>

\* re.search(start \s+ ([\s\S]*?) \s+ (end | end | ...), s): the leftmost
\* start, the longest blank run after it, the shortest group
AnchoredScan(s, startPat, endPats) ==
    LET L      == Len(startPat)
        starts == {i \in DOMAIN s : StartsAt(s, i, startPat)}
        ends   == {c \in DOMAIN s : \E e \in endPats : StartsAt(s, c, e)}
        EndFor(a) == {c \in ends : c > a /\ IsWs(s[c - 1])}
        Feasible(i, a) ==
            /\ \A k \in (i + L)..(a - 1) : IsWs(s[k])
            /\ EndFor(a) # {}
        GroupStarts(i) == {a \in (i + L + 1)..(Len(s) + 1) : Feasible(i, a)}
        matching == {i \in starts : GroupStarts(i) # {}}
    IN  IF matching = {} THEN [found |-> FALSE, group |-> <<>>]
        ELSE LET i0 == CHOOSE i \in matching : \A j \in matching : i <= j
                 a0 == SetMax(GroupStarts(i0))
                 c0 == CHOOSE c \in EndFor(a0) : \A d \in EndFor(a0) : c <= d
                 run == {b \in a0..(c0 - 1) : \A k \in b..(c0 - 1) : IsWs(s[k])}
                 b0 == CHOOSE b \in run : \A d \in run : b <= d
             IN  [found |-> TRUE, group |-> SubSeq(s, a0, b0 - 1)]

\* block = [ln.strip() for ln in group.splitlines() if ln.strip()]
BlockOfGroup(group) ==
    LET pieces == SplitLines(group)
    IN  SelectSeq([k \in DOMAIN pieces |-> Strip(pieces[k])], NonEmptyLine)

\* the name _clean_super_like returns: block[0] or None, `<<>>` being None
SuperLikeName(block) == IF block = <<>> THEN <<>> ELSE block[1]

SectionOf(sections, hdr) == IF hdr \in DOMAIN sections THEN sections[hdr] ELSE <<>>

UltraEndLabels == {HdrPassive, HdrActive, HdrLinks, HdrCats, HdrStats, HdrTransCond}

\* super_name after the re-scan
SuperName(lines) ==
    LET first == SuperLikeName(SectionOf(_split_sections(lines), HdrSuper))
        mS    == AnchoredScan(PageString(lines), HdrSuper, {HdrUltra})
    IN  IF first # <<>> THEN first
        ELSE IF mS.found THEN SuperLikeName(BlockOfGroup(mS.group))
        ELSE <<>>

\* ultra_name after the re-scan
UltraName(lines) ==
    LET first == SuperLikeName(SectionOf(_split_sections(lines), HdrUltra))
        mU    == AnchoredScan(PageString(lines), HdrUltra, UltraEndLabels)
    IN  IF first # <<>> THEN first
        ELSE IF mU.found THEN SuperLikeName(BlockOfGroup(mU.group))
        ELSE <<>>

InitNames ==
    /\ fn = "_clean_super_like"
    /\ arg \in PageTexts

ApplyNames ==
    /\ fn = "_clean_super_like"
    /\ ~out.done
    /\ out' = Returned([super_name |-> SuperName(arg), ultra_name |-> UltraName(arg)])
    /\ UNCHANGED <<fn, arg, mergeVars, regVars, orderVars, stepVars, walkVars, raceVars>>

\* content follows position p of line k: a word later on the line, or a next
\* non-blank line that is no label
FollowedByContent(lines, k, p) ==
    \/ \E q \in p..Len(lines[k]) : ~IsSpace(lines[k][q])
    \/ \E m \in (k + 1)..Len(lines) :
          /\ _condense_spaces(lines[m]) # <<>>
          /\ _condense_spaces(lines[m]) \notin HEADERS
          /\ \A j \in (k + 1)..(m - 1) : _condense_spaces(lines[j]) = <<>>

\* the label Ultra Super Attack stands somewhere in the text, content after it
UltraLabelWithContent(lines) ==
    \E k \in DOMAIN lines : \E i \in DOMAIN lines[k] :
        /\ StartsAt(lines[k], i, HdrUltra)
        /\ FollowedByContent(lines, k, i + Len(HdrUltra))

\* the label Super Attack, not as the tail of Ultra Super Attack
SuperLabelWithContent(lines) ==
    \E k \in DOMAIN lines : \E i \in DOMAIN lines[k] :
        /\ StartsAt(lines[k], i, HdrSuper)
        /\ ~(i > 2 /\ StartsAt(lines[k], i - 2, HdrUltra))
        /\ FollowedByContent(lines, k, i + Len(HdrSuper))

\* C19: a text that holds the label Super Attack (Ultra Super Attack) with
\* content after it gets a non-empty super (ultra) name, whatever label
\* follows, or none.
C19_NameWheneverLabel ==
    (fn = "_clean_super_like" /\ out.done)
    => /\ SuperLabelWithContent(arg) => out.val.super_name # <<>>
       /\ UltraLabelWithContent(arg) => out.val.ultra_name # <<>>

-----------------------------------------------------------------------------
(* extract_transform_and_exchange.  The passive effect is the sequence of   *)
(* its words, blanks and semicolons.                                        *)

MaxClauses == 3      \* semicolon-separated pieces of one passive effect

\* str.lower() and len() of the words in use
Lower(w) ==
    CASE w = "Transforms" -> "transforms"
      [] w = "Reversible" -> "reversible"
      [] w = "Exchange"   -> "exchange"
      [] OTHER            -> w

CharLen(w) ==
    CASE w \in {" ", ";"}                      -> 1
      [] w \in {"ATK", "DEF"}                  -> 3
      [] w \in {"+50%", "once", "when"}        -> 4
      [] w = "Exchange"                        -> 8
      [] w \in {"Transforms", "Reversible"}    -> 10
      [] w = "transformation"                  -> 14
      [] OTHER                                 -> 1

RECURSIVE StrLen(_)
StrLen(s) == IF s = <<>> THEN 0 ELSE CharLen(Head(s)) + StrLen(Tail(s))

LowerAll(s) == [k \in DOMAIN s |-> Lower(s[k])]

\* re.split(r"\s*;\s*", s), each piece stripped
RECURSIVE SplitSemicolons(_)
SplitSemicolons(s) ==
    IF \E k \in DOMAIN s : s[k] = ";"
    THEN LET k == CHOOSE k \in DOMAIN s :
                     s[k] = ";" /\ \A j \in 1..(k - 1) : s[j] # ";"
         IN  <<Strip(SubSeq(s, 1, k - 1))>> \o SplitSemicolons(SubSeq(s, k + 1, Len(s)))
    ELSE <<Strip(s)>>

\* "reversible exchange" in low
HasExchange(low) == \E i \in DOMAIN low : StartsAt(low, i, <<"reversible", " ", "exchange">>)

\* re.search(r"\btransforms?\b", low) or "transformation" in low
HasTransform(low) ==
    \E i \in DOMAIN low : low[i] \in {"transform", "transforms", "transformation"}

\* variant: the transform test comes before the exchange test
ClauseKind_transformfirst(c) ==
    LET low == LowerAll(c)
    IN  IF HasTransform(low) THEN "transform"
        ELSE IF HasExchange(low) THEN "exchange"
        ELSE "keep"

\* the list one pass of the loop appends the clause to
ClauseKind(c) ==
    LET low == LowerAll(c)
    IN  IF HasExchange(low) THEN "exchange"
        ELSE IF HasTransform(low) THEN "transform"
        ELSE "keep"

\* max(cands, key=len), the first of the longest, condensed; `<<>>` is None
pick_longest(cands) ==
    IF cands = <<>> THEN <<>>
    ELSE LET k == CHOOSE k \in DOMAIN cands :
                     /\ \A j \in DOMAIN cands : StrLen(cands[j]) <= StrLen(cands[k])
                     /\ \A j \in 1..(k - 1) : StrLen(cands[j]) < StrLen(cands[k])
         IN  _condense_spaces(cands[k])

extract_transform_and_exchange(passive_effect) ==
    IF passive_effect = <<>>
    THEN [cleaned_effect |-> passive_effect,
          transformation |-> [can_transform |-> FALSE, condition |-> <<>>],
          reversible_exchange |-> [can_exchange |-> FALSE, condition |-> <<>>],
          transform_clauses |-> <<>>, exchange_clauses |-> <<>>]
    ELSE LET clauses == SelectSeq(SplitSemicolons(passive_effect), NonEmptyLine)
             IsKeep(c)      == ClauseKind(c) = "keep"
             IsTransform(c) == ClauseKind(c) = "transform"
             IsExchange(c)  == ClauseKind(c) = "exchange"
             keep             == SelectSeq(clauses, IsKeep)
             transform_clauses == SelectSeq(clauses, IsTransform)
             exchange_clauses  == SelectSeq(clauses, IsExchange)
             transform_condition_raw == pick_longest(transform_clauses)
             exchange_condition_raw  == pick_longest(exchange_clauses)
         IN  [cleaned_effect |-> Strip(Join(keep, <<";", " ">>)),
              transformation |-> [can_transform |-> transform_condition_raw # <<>>,
                                  condition |-> transform_condition_raw],
              reversible_exchange |-> [can_exchange |-> exchange_condition_raw # <<>>,
                                       condition |-> exchange_condition_raw],
              transform_clauses |-> transform_clauses,
              exchange_clauses |-> exchange_clauses]

ClausePool ==
    {<<"ATK", " ", "+50%">>,
     <<" ", "DEF", " ", "+50%">>,
     <<" ", "Transforms", " ", "once">>,
     <<" ", "Transforms", " ", "when">>,
     <<" ", "transformation">>,
     <<" ", "Reversible", " ", "Exchange", " ", "transformation", " ">>,
     <<" ">>}

PassiveEffects ==
    UNION {{Join(ps, <<";">>) : ps \in [1..n -> ClausePool]} : n \in 0..MaxClauses}

InitExtract ==
    /\ fn = "extract_transform_and_exchange"
    /\ arg \in PassiveEffects

ApplyExtract ==
    /\ fn = "extract_transform_and_exchange"
    /\ ~out.done
    /\ out' = Returned(extract_transform_and_exchange(arg))
    /\ UNCHANGED <<fn, arg, mergeVars, regVars, orderVars, stepVars, walkVars, raceVars>>

\* what a clause mentions, read off its words
MentionsExchange(c) ==
    \E i \in 1..(Len(c) - 2) :
        Lower(c[i]) = "reversible" /\ c[i + 1] = " " /\ Lower(c[i + 2]) = "exchange"

MentionsTransform(c) ==
    \E i \in DOMAIN c : Lower(c[i]) \in {"transform", "transforms", "transformation"}

MentionsNeither(c) == ~MentionsExchange(c) /\ ~MentionsTransform(c)

TransformOnly(c) == MentionsTransform(c) /\ ~MentionsExchange(c)

\* the non-empty clauses of a passive effect
ClausesOf(effect) == SelectSeq(SplitSemicolons(effect), NonEmptyLine)

\* C20: every clause of the passive effect lands in exactly one place: the
\* exchange candidates hold the clauses mentioning "reversible exchange", the
\* transform candidates the other clauses mentioning transform(s) or
\* transformation, the general effect the rest in their order; no clause of
\* the general effect mentions either, and can_transform and can_exchange say
\* whether the candidate list is non-empty.
C20_ClausePartition ==
    (fn = "extract_transform_and_exchange" /\ out.done)
    => LET r == out.val
       IN  /\ r.exchange_clauses = SelectSeq(ClausesOf(arg), MentionsExchange)
           /\ r.transform_clauses = SelectSeq(ClausesOf(arg), TransformOnly)
           /\ r.cleaned_effect
                  = Join(SelectSeq(ClausesOf(arg), MentionsNeither), <<";", " ">>)
           /\ Len(ClausesOf(r.cleaned_effect)) + Len(r.transform_clauses)
                  + Len(r.exchange_clauses) = Len(ClausesOf(arg))
           /\ \A k \in DOMAIN ClausesOf(r.cleaned_effect) :
                 MentionsNeither(ClausesOf(r.cleaned_effect)[k])
           /\ r.transformation.can_transform <=> (r.transform_clauses # <<>>)
           /\ r.reversible_exchange.can_exchange <=> (r.exchange_clauses # <<>>)

\* a plain clause, a transform clause and a clause that mentions both
C20_Witness ==
    /\ fn = "extract_transform_and_exchange" /\ out.done
    /\ Len(ClausesOf(arg)) = 3
    /\ out.val.cleaned_effect = <<"ATK", " ", "+50%">>
    /\ out.val.transform_clauses = << <<"Transforms", " ", "once">> >>
    /\ out.val.exchange_clauses
           = << <<"Reversible", " ", "Exchange", " ", "transformation">> >>
    /\ out.val.transformation.can_transform
    /\ out.val.reversible_exchange.can_exchange

\* the temporal/trigger keywords: "when", "starting", "turn", "entry",
\* "once only"
HasTriggerKeyword(c) ==
    \/ \E i \in DOMAIN c : Lower(c[i]) \in {"when", "starting", "turn", "entry"}
    \/ \E i \in DOMAIN c : StartsAt(LowerAll(c), i, <<"once", " ", "only">>)

\* the candidates of maximal length
LongestOf(cands) ==
    {k \in DOMAIN cands : \A j \in DOMAIN cands : StrLen(cands[j]) <= StrLen(cands[k])}

\* the condition is a longest candidate, and one with a trigger keyword
\* whenever a longest candidate has one
LongestKeywordFirst(cands, condition) ==
    cands # <<>>
    => \E k \in LongestOf(cands) :
          /\ condition = _condense_spaces(cands[k])
          /\ (\E j \in LongestOf(cands) : HasTriggerKeyword(cands[j]))
                 => HasTriggerKeyword(cands[k])

\* C21: with several candidate clauses of one kind the reported condition is
\* the longest candidate, and among the candidates of equal maximal length
\* one containing a temporal/trigger keyword is chosen over one with none.
C21_LongestThenTriggerKeyword ==
    (fn = "extract_transform_and_exchange" /\ out.done)
    => /\ LongestKeywordFirst(out.val.transform_clauses,
                              out.val.transformation.condition)
       /\ LongestKeywordFirst(out.val.exchange_clauses,
                              out.val.reversible_exchange.condition)


-----------------------------------------------------------------------------
(* Display art of a variant (cards_site.py).  A card-art path is given by   *)
(* the shape of its file name and the card id in it; a URL is a path under  *)
(* the "/assets/" mount.                                                    *)

MaxArt == 2          \* entries of a variant's flat asset list

ShortId == 12345
CardIdA == 1000001
CardIdB == 1000002

ArtPath(shape, cid) == [shape |-> shape, cid |-> cid, url |-> FALSE]
NoArt == ArtPath("None", 0)

\* f"/assets/{rel}"
AssetUrl(rel) == [rel EXCEPT !.url = TRUE]

\* vid.isdigit() and len(vid) == 7
IsCardId(v) == v >= 1000000 /\ v <= 9999999

FULL_CARD_RE(rel) == rel.shape = "full_card" /\ IsCardId(rel.cid)
CHAR_CARD_RE(rel) == rel.shape = "character" /\ IsCardId(rel.cid)
THUMB_CANON(cid)  == ArtPath("card_thumb", cid)

\* the index record classify_single_asset builds for a card-art path
ArtRecord(rel) == [path |-> rel, subtype |-> rel.shape, card_id |-> rel.cid]

\* recs.sort(key=score, reverse=True): a stable sort on (s1, s2)
asset_candidates(index_obj, category, subtype, card_id) ==
    LET recs == index_obj[category]
        s1(it) == IF subtype # None /\ it.subtype = subtype THEN 1 ELSE 0
        s2(it) == IF card_id # 0 /\ it.card_id = card_id THEN 1 ELSE 0
        Both(it)    == s1(it) = 1 /\ s2(it) = 1
        SubOnly(it) == s1(it) = 1 /\ s2(it) = 0
        IdOnly(it)  == s1(it) = 0 /\ s2(it) = 1
        Neither(it) == s1(it) = 0 /\ s2(it) = 0
    IN  SelectSeq(recs, Both) \o SelectSeq(recs, SubOnly)
            \o SelectSeq(recs, IdOnly) \o SelectSeq(recs, Neither)

extract_card_id(variant, full, char) ==
    LET vid == IF variant.form_id # 0 THEN variant.form_id ELSE variant.unit_id
    IN  IF IsCardId(vid) THEN vid
        ELSE IF full # NoArt /\ FULL_CARD_RE(full) THEN full.cid
        ELSE IF char # NoArt /\ CHAR_CARD_RE(char) THEN char.cid
        ELSE 0

\* the loop over variant["assets"]: the first match fills an empty slot
RECURSIVE ScanAssets(_, _, _)
ScanAssets(assets, full, char) ==
    IF assets = <<>> THEN [full |-> full, char |-> char]
    ELSE LET a_rel == Head(assets)
             full1 == IF full = NoArt /\ FULL_CARD_RE(a_rel) THEN a_rel ELSE full
             char1 == IF char = NoArt /\ CHAR_CARD_RE(a_rel) THEN a_rel ELSE char
         IN  ScanAssets(Tail(assets), full1, char1)

choose_variant_art(variant) ==
    LET index   == variant.assets_index
        v_id    == IF variant.form_id # 0 THEN variant.form_id ELSE variant.unit_id
        ca_full == asset_candidates(index, "card_art", "full_card", v_id)
        full0   == IF ca_full # <<>> THEN ca_full[1].path ELSE NoArt
        ca_char == asset_candidates(index, "card_art", "character", v_id)
        char0   == IF ca_char # <<>> THEN ca_char[1].path ELSE NoArt
        found   == ScanAssets(variant.assets, full0, char0)
        cid     == extract_card_id(variant, found.full, found.char)
    IN  [full      |-> IF found.full # NoArt THEN AssetUrl(found.full) ELSE NoArt,
         character |-> IF found.char # NoArt THEN AssetUrl(found.char) ELSE NoArt,
         thumb     |-> IF cid # 0 THEN AssetUrl(THUMB_CANON(cid)) ELSE NoArt,
         cid       |-> cid]

\* variant is never the empty dict here: it always carries its id fields
choose_images_for_list(variant) ==
    LET art == choose_variant_art(variant)
    IN  [grid |-> IF art.full # NoArt THEN art.full
                  ELSE IF art.character # NoArt THEN art.character
                  ELSE art.thumb,
         full |-> art.full, thumb |-> art.thumb, cid |-> art.cid,
         character |-> art.character]

ArtPool ==
    {ArtPath("bg", CardIdA), ArtPath("character", CardIdA), ArtPath("full_card", CardIdA)}

\* card_art as build_assets_index leaves it: sorted by subtype
CardArtLists ==
    {SelectSeq(<<ArtRecord(ArtPath("bg", CardIdA)),
                 ArtRecord(ArtPath("character", CardIdA)),
                 ArtRecord(ArtPath("full_card", CardIdA))>>,
               LAMBDA r : r.path \in keep) : keep \in SUBSET ArtPool}

ArtVariants ==
    {[form_id |-> ids[1], unit_id |-> ids[2],
      assets_index |-> [card_art |-> ca], assets |-> as] :
        ids \in {<<0, 0>>, <<ShortId, 0>>, <<CardIdA, 0>>, <<0, CardIdB>>},
        ca \in CardArtLists,
        as \in UNION {[1..n -> ArtPool] : n \in 0..MaxArt}}

InitArt ==
    /\ fn = "choose_images_for_list"
    /\ arg \in ArtVariants

ApplyArt ==
    /\ fn = "choose_images_for_list"
    /\ ~out.done
    /\ out' = Returned(choose_images_for_list(arg))
    /\ UNCHANGED <<fn, arg, mergeVars, regVars, orderVars, stepVars, walkVars, raceVars>>

\* the art a variant has, read off its index and its asset list
ArtOf(variant) ==
    {variant.assets_index.card_art[i].path : i \in DOMAIN variant.assets_index.card_art}
        \cup Range(variant.assets)

HasFullArt(variant) == \E a \in ArtOf(variant) : a.shape = "full_card"
HasCharArt(variant) == \E a \in ArtOf(variant) : a.shape = "character"

\* C22: the display image follows the priority full card art, character-only
\* art, thumbnail, generated placeholder: a lower tier is returned only when
\* every higher tier is unavailable, a result is always produced, and the
\* result says which tier was used.
C22_ArtPriority ==
    (fn = "choose_images_for_list" /\ out.done)
    => LET r == out.val
       IN  /\ r.grid # NoArt
           /\ HasFullArt(arg) => r.grid.shape = "full_card"
           /\ (~HasFullArt(arg) /\ HasCharArt(arg)) => r.grid.shape = "character"
           /\ (~HasFullArt(arg) /\ ~HasCharArt(arg))
                  => r.grid.shape \in {"card_thumb", "placeholder"}
           /\ (r.grid = r.full) => r.grid.shape = "full_card"
           /\ (r.grid = r.character) => r.grid.shape = "character"

-----------------------------------------------------------------------------
(* classify_single_asset on paths given by their segments *)

\* the categories named in the function's docstring
ASSET_CATEGORIES ==
    {"card_art", "thumbnail", "ui", "category_label", "event_banner",
     "equipment", "site", "other"}

SiteDirs == <<"dokkaninfo.com", "assets", "global", "en">>

RelPathPool ==
    {<<>>,
     <<"notes.txt">>,
     <<"cdn", "ad_banner.png">>,
     <<"cdn", "image", "ad_banner.png">>,
     <<"cdn", "venatus_frame.js">>,
     <<"dokkaninfo.com", "assets", "dokkan-info-logo.png">>,
     <<"character", "card", "1", "1.png">>,
     SiteDirs \o <<"layout", "en", "image", "cha_rare_sm_ur.png">>,
     SiteDirs \o <<"layout", "en", "image", "cha_type_icon_01.png">>,
     SiteDirs \o <<"layout", "en", "image", "character_thumb_bg", "1.png">>,
     SiteDirs \o <<"ingame", "battle", "skill_dialog", "1.png">>,
     SiteDirs \o <<"ingame", "common", "condition", "st_0001.png">>,
     SiteDirs \o <<"ingame", "common", "condition", "1.png">>,
     SiteDirs \o <<"charamenu", "dokkan", "1.png">>,
     SiteDirs \o <<"card_category", "label", "card_category_label_7_en.png">>,
     SiteDirs \o <<"card_category", "label", "1.png">>,
     SiteDirs \o <<"ingame", "events", "zbattle_01.png">>,
     SiteDirs \o <<"ingame", "events", "1.png">>,
     SiteDirs \o <<"item", "equipment", "equ_item_3.png">>,
     SiteDirs \o <<"item", "equipment", "1.png">>,
     SiteDirs \o <<"character", "thumb", "card_1_thumb.png">>,
     SiteDirs \o <<"character", "thumb", "cha_rare_sm_ur.png">>,
     SiteDirs \o <<"character", "card", "1", "1.png">>,
     SiteDirs \o <<"character", "card", "1", "2.png">>,
     SiteDirs \o <<"character", "card", "1", "card_1_bg.png">>,
     SiteDirs \o <<"character", "card", "1", "card_1_character.png">>,
     SiteDirs \o <<"character", "card", "1", "card_1_cutin.png">>,
     SiteDirs \o <<"character", "card", "card_1_bg.png">>,
     <<"dokkaninfo.com", "assets", "global", "EN", "character", "Card", "1",
       "Card_1_BG.png">>,
     SiteDirs \o <<"character", "1.png">>}

InitClassify ==
    /\ fn = "classify_single_asset"
    /\ arg \in RelPathPool

\* the path is classified, and classified once more
ApplyClassify ==
    /\ fn = "classify_single_asset"
    /\ ~out.done
    /\ out' = Returned([first |-> ClassifyRules(arg), again |-> ClassifyRules(arg)])
    /\ UNCHANGED <<fn, arg, mergeVars, regVars, orderVars, stepVars, walkVars, raceVars>>

\* the path has none of the shapes the rules name
MatchesNoRule(segs) ==
    LET p == LowerSegs(segs)
    IN  ~(\/ IsLogo(p) \/ IsAd(p) \/ IsRarityIcon(p) \/ IsTypeIcon(p) \/ IsThumbBg(p)
          \/ IsPassiveMark(p) \/ IsConditionIcon(p) \/ IsMenuIcon(p)
          \/ IsCategoryLabel(p) \/ IsEventBanner(p) \/ IsEquipment(p)
          \/ IsThumbnail(p) \/ IsCardArt(p))

-----------------------------------------------------------------------------
(* The awakening annotation on families with forks and cycles *)

ChainForms == {1, 2, 4}

\* the to_ids a page of form f can list
ToIdsPool(f) ==
    LET a == CHOOSE x \in ChainForms \ {f} : \A y \in ChainForms \ {f} : x <= y
        b == CHOOSE x \in ChainForms \ {f} : \A y \in ChainForms \ {f} : y <= x
    IN  {<<>>, <<a>>, <<b>>, <<a, b>>, <<b, a>>, <<ExternalId>>, <<a, ExternalId>>}

ChainVariant(f, rar, to) ==
    [key |-> build_form_variant_key(f, FALSE, 0), form_id |-> f, step |-> 0,
     is_super_eza |-> FALSE, rarity |-> rar, rarity_rank |-> RARITY_RANK(rar),
     awakening |-> [from_ids |-> <<>>, to_ids |-> to]]

ChainFamilies ==
    {<<ChainVariant(1, r[1], t1), ChainVariant(2, r[2], t2), ChainVariant(4, r[3], t4)>> :
        r \in [1..3 -> {None, "UR", "LR"}],
        t1 \in ToIdsPool(1), t2 \in ToIdsPool(2), t4 \in ToIdsPool(4)}

InitChain ==
    /\ fn = "_chain_head"
    /\ arg \in ChainFamilies

\* block C of merge_variant_into_unit_json on the variant list
ApplyChain ==
    /\ fn = "_chain_head"
    /\ ~out.done
    /\ out' = Returned(Annotate(arg))
    /\ UNCHANGED <<fn, arg, mergeVars, regVars, orderVars, stepVars, walkVars, raceVars>>

\* the graph the variants declare
OutOf(vs, n) ==
    IF n \in VarIds(vs) THEN Range(var_by_id(vs, n).awakening.to_ids) ELSE {}

RankOf(vs, n) == IF n \in VarIds(vs) THEN var_by_id(vs, n).rarity_rank ELSE -1

\* the member of S with the greatest (rarity rank, numeric id)
Greatest(vs, S) ==
    CHOOSE n \in S : \A m \in S :
        \/ RankOf(vs, m) < RankOf(vs, n)
        \/ RankOf(vs, m) = RankOf(vs, n) /\ m <= n

\* the neighbour followed from n: the greatest of all of them
Followed(vs, n) == Greatest(vs, OutOf(vs, n))

\* the greatest of the neighbours inside the document when there is one
FollowedInside(vs, n) ==
    IF OutOf(vs, n) \cap VarIds(vs) # {}
    THEN Greatest(vs, OutOf(vs, n) \cap VarIds(vs))
    ELSE Greatest(vs, OutOf(vs, n))

\* the node k steps of Followed away from n, or the terminal node before
RECURSIVE WalkTo(_, _, _)
WalkTo(vs, n, k) ==
    IF k = 0 \/ OutOf(vs, n) = {} THEN n ELSE WalkTo(vs, Followed(vs, n), k - 1)

RECURSIVE WalkInsideTo(_, _, _)
WalkInsideTo(vs, n, k) ==
    IF k = 0 \/ OutOf(vs, n) = {} THEN n
    ELSE WalkInsideTo(vs, FollowedInside(vs, n), k - 1)

\* the walk halts at its k-th node: no edge leaves it, or the neighbour to
\* follow is a node the walk has already moved to
HaltsAt(vs, n, k) ==
    LET at == WalkInsideTo(vs, n, k)
    IN  \/ OutOf(vs, at) = {}
        \/ FollowedInside(vs, at) \in {WalkInsideTo(vs, n, j) : j \in 1..k}

NodeCount(vs) == Cardinality(VarIds(vs)) + 1

\* C25 as stated: from every variant the walk follows the neighbour with the
\* greatest (rarity rank, numeric id) at each node until a node with no
\* outgoing edges, and that node is the chain head.
C25_GreatestNeighbourToTerminal ==
    (fn = "_chain_head" /\ out.done)
    => \A i \in DOMAIN out.val :
          LET h == out.val[i].awaken_chain_head_id
          IN  /\ h = WalkTo(arg, arg[i].form_id, NodeCount(arg))
              /\ OutOf(arg, h) = {}

\* C25 amended: the neighbour followed is the greatest (rarity rank, numeric
\* id) among the neighbours inside the document, or among all of them when
\* none is inside; the chain head is the first node of this walk that has no
\* outgoing edge or whose neighbour to follow was already moved to.
C25_GreatestInsideNeighbourOrGuard ==
    (fn = "_chain_head" /\ out.done)
    => \A i \in DOMAIN out.val :
          LET h   == out.val[i].awaken_chain_head_id
              fid == arg[i].form_id
          IN  \E k \in 0..(NodeCount(arg) + 1) :
                 /\ h = WalkInsideTo(arg, fid, k)
                 /\ HaltsAt(arg, fid, k)
                 /\ \A j \in 0..(k - 1) : ~HaltsAt(arg, fid, j)

\* form 1 forks to 2 (UR) and 4 (LR): the walk takes 4 for its rarity and
\* ends there
C25_Witness ==
    /\ fn = "_chain_head" /\ out.done
    /\ arg[1].awakening.to_ids = <<2, 4>>
    /\ arg[2].rarity = "UR" /\ arg[2].awakening.to_ids = <<>>
    /\ arg[3].rarity = "LR" /\ arg[3].awakening.to_ids = <<>>
    /\ out.val[1].awaken_chain_head_id = 4

\* C27: when B is the neighbour the resolver follows from A, the variants of
\* A and of B carry the same awaken_chain_head_id, so the variants along one
\* chain, cycles included, share one head, and the fully awakened variants of
\* the chain are exactly those of the head's form.
C27_ChainSharesHead ==
    LET vs == Stored.variants
    IN  \A i, j \in DOMAIN vs :
           (/\ vs[i].form_id # 0
            /\ OutOf(vs, vs[i].form_id) # {}
            /\ vs[j].form_id = FollowedInside(vs, vs[i].form_id))
           => /\ vs[i].awaken_chain_head_id = vs[j].awaken_chain_head_id
              /\ vs[i].is_fully_awakened
                     <=> (vs[i].form_id = vs[j].awaken_chain_head_id)

-----------------------------------------------------------------------------
(* Specification SpecFields: merges whose unit fields differ from one       *)
(* variant to the next and may be empty                                     *)

FieldInputs ==
    {[ScrapedInput(f, 0, FamilyKey(f, 0), disp, rar, None, FALSE, <<>>, <<>>, <<>>)
        EXCEPT !.unit_fields.type = ty, !.unit_fields.source_base_url = url] :
        f \in FamilyForms,
        disp \in {None, "", DisplayNameOf(1), DisplayNameOf(2)},
        rar \in {None, "UR", "LR"},
        ty \in {None, "AGL", "TEQ"},
        url \in {None, CardUrl(1), CardUrl(2)}}

InitFields == MergeIdle /\ OrderIdle /\ StepIdle /\ WalkIdle /\ RegIdle /\ ExtIdle

MergeFields ==
    \E inp \in FieldInputs :
        /\ MergeInto(inp)
        /\ UNCHANGED <<orderVars, stepVars, walkVars, extVars>>

NextFields == MergeFields

SpecFields == InitFields /\ [][NextFields]_vars

TopLevelFields == {"display_name", "rarity", "type", "source_base_url"}

\* C28: once the family document is seeded, a merge leaves unit_id and every
\* non-empty field among display_name, rarity, type and source_base_url as
\* they are; a field that is still empty stays empty or is filled.
C28_TopLevelFrozen ==
    [][file = "ok"
       => /\ doc'.unit_id = doc.unit_id
          /\ \A k \in TopLevelFields :
                IF ~Falsy(doc[k]) THEN doc'[k] = doc[k]
                ELSE doc'[k] = doc[k] \/ ~Falsy(doc'[k])]_vars

\* a document seeded by form 1 that has since taken a variant of form 2,
\* whose unit fields name another unit
C28_Witness ==
    /\ file = "ok"
    /\ doc.unit_id = 1
    /\ doc.display_name = DisplayNameOf(1)
    /\ doc.rarity = "UR"
    /\ \E i \in DOMAIN doc.variants : doc.variants[i].form_id = 2

-----------------------------------------------------------------------------
(* Specification SpecCollect: the loop of collect_effect_and_conditions     *)
(* over the descendants of one content block, one node per step.  A text is *)
(* a sequence of words, blanks and punctuation marks; the condition label   *)
(* is one word of it.                                                       *)

MaxElems == 3        \* elements of one content block

LabelFinish == "Finish Skill Condition(s)"

\* \w at the label's side of a neighbouring token
IsWordTok(t) == t \notin {" ", ":", ";"}

\* cond_label_regex = \b<label>\b, re.IGNORECASE: the label starts with a
\* letter and ends with ")", so the first \b needs no word character before
\* it and the second one needs a word character after it
CondLabelSearch(s) ==
    \E i \in DOMAIN s :
        /\ s[i] = LabelFinish
        /\ i = 1 \/ ~IsWordTok(s[i - 1])
        /\ i < Len(s) /\ IsWordTok(s[i + 1])

TextNode(t) == [kind |-> "text", string |-> t]
BoldTag(t)  == [kind |-> "b", string |-> t]
HrTag       == [kind |-> "hr", string |-> <<>>]

\* .descendants: a <b> element is followed by the string it holds
ElementPool ==
    {<<TextNode(<<"ATK">>)>>,
     <<TextNode(<<" ", "HP", " ">>)>>,
     <<TextNode(<<" ">>)>>,
     <<HrTag>>,
     <<BoldTag(<<"Note">>), TextNode(<<"Note">>)>>,
     <<BoldTag(<<LabelFinish>>), TextNode(<<LabelFinish>>)>>,
     <<BoldTag(<<LabelFinish, "x">>), TextNode(<<LabelFinish, "x">>)>>}

ContentDivs ==
    UNION {{Join(es, <<>>) : es \in [1..n -> ElementPool]} : n \in 0..MaxElems}

LoopStart ==
    [pos |-> 1, collecting_conditions |-> FALSE, effect_lines |-> <<>>,
     cond_lines |-> <<>>]

\* one pass of `for node in content_div.descendants`
CollectStep(st, node) ==
    LET next == [st EXCEPT !.pos = st.pos + 1]
    IN  IF node.kind = "b" /\ node.string # <<>> /\ CondLabelSearch(Strip(node.string))
        THEN [next EXCEPT !.collecting_conditions = TRUE]
        ELSE IF node.kind = "hr" THEN next
        ELSE IF node.kind = "text"
        THEN LET text == Strip(node.string)
             IN  IF text = <<>> THEN next
                 ELSE IF st.collecting_conditions
                 THEN [next EXCEPT !.cond_lines = Append(st.cond_lines, text)]
                 ELSE [next EXCEPT !.effect_lines = Append(st.effect_lines, text)]
        ELSE next

\* re.sub of the label at the end of the effect / at the start of the condition
DropTrailingLabel(s) ==
    LET t == RStrip(s)
    IN  IF t # <<>> /\ t[Len(t)] = LabelFinish THEN SubSeq(t, 1, Len(t) - 1) ELSE s

DropLeadingLabel(s) ==
    IF s # <<>> /\ s[1] = LabelFinish THEN LStrip(Tail(s)) ELSE s

\* the statements after the loop; `<<>>` is None for the condition
CollectResult(st) ==
    LET effect0   == Strip(DropTrailingLabel(
                         _condense_spaces(Join(st.effect_lines, <<" ">>))))
        condition == IF st.cond_lines # <<>>
                     THEN Strip(DropLeadingLabel(
                              _condense_spaces(Join(st.cond_lines, <<" ">>))))
                     ELSE <<>>
    IN  [effect |-> SubSemicolons(effect0, 1), condition |-> condition]

InitCollect ==
    /\ MergeIdle /\ OrderIdle /\ StepIdle /\ WalkIdle /\ RegIdle /\ RaceIdle
    /\ fn = "collect_effect_and_conditions"
    /\ arg \in ContentDivs
    /\ out = [done |-> FALSE, val |-> LoopStart]

CollectNode ==
    /\ fn = "collect_effect_and_conditions"
    /\ ~out.done
    /\ out.val.pos <= Len(arg)
    /\ out' = [out EXCEPT !.val = CollectStep(out.val, arg[out.val.pos])]
    /\ UNCHANGED <<fn, arg, mergeVars, regVars, orderVars, stepVars, walkVars, raceVars>>

CollectReturn ==
    /\ fn = "collect_effect_and_conditions"
    /\ ~out.done
    /\ out.val.pos > Len(arg)
    /\ out' = Returned(CollectResult(out.val))
    /\ UNCHANGED <<fn, arg, mergeVars, regVars, orderVars, stepVars, walkVars, raceVars>>

NextCollect == CollectNode \/ CollectReturn

SpecCollect == InitCollect /\ [][NextCollect]_vars

\* a <b> element whose text is the condition label
IsSubLabel(node) == node.kind = "b" /\ Strip(node.string) = <<LabelFinish>>

\* the non-blank texts of the text nodes among nodes[from..to]
TextsIn(nodes, from, to) ==
    LET IsTextual(n) == n.kind = "text" /\ Strip(n.string) # <<>>
        picked == SelectSeq(SubSeq(nodes, from, to), IsTextual)
    IN  [k \in DOMAIN picked |-> Strip(picked[k].string)]

\* C26: the loop starts collecting effect text, switches to condition text at
\* the first condition sub-label and never switches back: after any number of
\* nodes, the texts before the first sub-label are the effect lines and the
\* texts after it are the condition lines.
C26_EffectUntilSubLabel ==
    (fn = "collect_effect_and_conditions" /\ ~out.done)
    => LET done   == out.val.pos - 1
           labels == {j \in 1..done : IsSubLabel(arg[j])}
           first  == IF labels = {} THEN done + 1
                     ELSE CHOOSE j \in labels : \A k \in labels : j <= k
       IN  /\ out.val.collecting_conditions <=> (labels # {})
           /\ out.val.effect_lines = TextsIn(arg, 1, first - 1)
           /\ out.val.cond_lines = TextsIn(arg, first + 1, done)

-----------------------------------------------------------------------------
(* Specification SpecFamily: discover_family_ids_bfs over the tile strips   *)
(* of the pages of one family, one page per step                            *)

MAX_FAMILY_SIZE == 40

\* unit ids of the pages; the search starts at the page of id 1
PageIds == 1..52

\* the ids a, a + 1, ..., b as a tile strip
Strip_ids(a, b) == [i \in 1..(b - a + 1) |-> a + i - 1]

\* what extract_ids_from_col5_images finds on the page of each id
NoLinks == [p \in PageIds |-> <<>>]

\* the start page lists n related ids
LinksWide(n) == [NoLinks EXCEPT ![1] = Strip_ids(2, n + 1)]

\* every page lists the next id
LinksChain == [p \in PageIds |-> IF p < 46 THEN <<p + 1>> ELSE <<>>]

\* the start page lists four ids, three of which list twelve more each
LinksTree ==
    [p \in PageIds |->
        IF p = 1 THEN Strip_ids(2, 5)
        ELSE IF p \in 2..4 THEN Strip_ids(12 * p - 7, 12 * p + 4)
        ELSE <<>>]

\* pages listing one another
LinksCycle ==
    [NoLinks EXCEPT ![1] = <<2>>, ![2] = <<1, 3>>, ![3] = <<2, 1>>]

\* start_html is None when the base page gave no HTML; `down` are the pages
\* goto_ok fails on
PageGraphs ==
    {[links |-> l, start_html |-> sh, down |-> dn] :
        l \in {LinksWide(39), LinksWide(40), LinksWide(45), LinksChain, LinksTree,
               LinksCycle},
        sh \in BOOLEAN,
        dn \in {{}, {2}, {3}}}

BfsStart ==
    [pc |-> "seed", family |-> {1}, queue |-> <<>>, seen_pages |-> {},
     fetched |-> <<>>]

\* `for rid in ...: if rid not in family: family.add(rid); queue.append(rid)`
RECURSIVE SeedLoop(_, _)
SeedLoop(st, ids) ==
    IF ids = <<>> THEN st
    ELSE LET rid == Head(ids)
         IN  IF rid \notin st.family
             THEN SeedLoop([st EXCEPT !.family = @ \cup {rid},
                                      !.queue = Append(@, rid)], Tail(ids))
             ELSE SeedLoop(st, Tail(ids))

\* the loop over `more`, which looks at the size before every addition
RECURSIVE MoreLoop(_, _)
MoreLoop(st, ids) ==
    IF ids = <<>> THEN st
    ELSE LET mid == Head(ids)
         IN  IF mid \notin st.family /\ Cardinality(st.family) < MAX_FAMILY_SIZE
             THEN MoreLoop([st EXCEPT !.family = @ \cup {mid},
                                      !.queue = Append(@, mid)], Tail(ids))
             ELSE MoreLoop(st, Tail(ids))

\* one pass of the while loop
VisitStep(g, st) ==
    LET rid    == Head(st.queue)
        url    == CardUrl(rid)
        popped == [st EXCEPT !.queue = Tail(@)]
    IN  IF url \in st.seen_pages THEN popped
        ELSE LET gone == [popped EXCEPT !.seen_pages = @ \cup {url},
                                        !.fetched = Append(@, rid)]
             IN  IF rid \in g.down THEN gone
                 ELSE MoreLoop(gone, g.links[rid])

InitFamily ==
    /\ MergeIdle /\ OrderIdle /\ StepIdle /\ WalkIdle /\ RegIdle /\ RaceIdle
    /\ fn = "discover_family_ids_bfs"
    /\ arg \in PageGraphs
    /\ out = [done |-> FALSE, val |-> BfsStart]

SeedFamily ==
    /\ fn = "discover_family_ids_bfs"
    /\ ~out.done /\ out.val.pc = "seed"
    /\ out' = [out EXCEPT !.val =
                  [(IF arg.start_html THEN SeedLoop(out.val, arg.links[1])
                    ELSE out.val) EXCEPT !.pc = "loop"]]
    /\ UNCHANGED <<fn, arg, mergeVars, regVars, orderVars, stepVars, walkVars, raceVars>>

VisitPage ==
    /\ fn = "discover_family_ids_bfs"
    /\ ~out.done /\ out.val.pc = "loop"
    /\ out.val.queue # <<>> /\ Cardinality(out.val.family) < MAX_FAMILY_SIZE
    /\ out' = [out EXCEPT !.val = VisitStep(arg, out.val)]
    /\ UNCHANGED <<fn, arg, mergeVars, regVars, orderVars, stepVars, walkVars, raceVars>>

\* return sorted(family)
ReturnFamily ==
    /\ fn = "discover_family_ids_bfs"
    /\ ~out.done /\ out.val.pc = "loop"
    /\ ~(out.val.queue # <<>> /\ Cardinality(out.val.family) < MAX_FAMILY_SIZE)
    /\ out' = Returned([family |-> SortedSeq(out.val.family),
                        fetched |-> out.val.fetched])
    /\ UNCHANGED <<fn, arg, mergeVars, regVars, orderVars, stepVars, walkVars, raceVars>>

NextFamily == SeedFamily \/ VisitPage \/ ReturnFamily

SpecFamily == InitFamily /\ [][NextFamily]_vars

\* no page is fetched twice
FetchedOnce ==
    fn = "discover_family_ids_bfs"
    => \A i, j \in DOMAIN out.val.fetched :
          out.val.fetched[i] = out.val.fetched[j] => i = j

\* C29: on every page graph, a start page listing more than 39 related ids
\* included, the family returned has at most MAX_FAMILY_SIZE ids, and no
\* related page is fetched twice.
C29_FamilyCapped ==
    (fn = "discover_family_ids_bfs")
    => /\ out.done => Len(out.val.family) <= MAX_FAMILY_SIZE
       /\ FetchedOnce

-----------------------------------------------------------------------------
(* The asset route and the existence probe of the site (SpecText).          *)
(* A request path is a sequence of tokens: the separators "/" and "\\", and *)
(* pieces of names; a path of the file system is a sequence of names, each  *)
(* a sequence of pieces, so that "assets_bak" begins with "assets".         *)

ASSETS_ROOT == <<<<"srv">>, <<"output">>, <<"assets">>>>

\* the files on disk: the assets, and what lies beside the assets directory
AssetFiles ==
    {ASSETS_ROOT \o <<<<"dokkaninfo.com">>, <<"a.png">>>>}
SiblingFiles ==
    {<<<<"srv">>, <<"output">>, <<"assets", "_bak">>, <<"secret.txt">>>>,
     <<<<"srv">>, <<"output">>, <<"cards">>, <<"1.json">>>>}
DiskPool == {AssetFiles, AssetFiles \cup SiblingFiles}

\* the request paths tried
RequestPool ==
    {<<>>,
     <<"dokkaninfo.com", "/", "a.png">>,
     <<"/", "dokkaninfo.com", "/", "a.png">>,
     <<"dokkaninfo.com", "/", "/", "a.png">>,
     <<"dokkaninfo.com", "\\", "a.png">>,
     <<"dokkaninfo.com", "/", "missing.png">>,
     <<".", "/", "dokkaninfo.com">>,
     <<"dokkaninfo.com", "/", "..", "/", "dokkaninfo.com", "/", "a.png">>,
     <<"..">>,
     <<"..", "/", "cards", "/", "1.json">>,
     <<"..", "/", "assets", "_bak", "/", "secret.txt">>,
     <<"..", "\\", "assets", "_bak", "\\", "secret.txt">>,
     <<"/", "..", "/", "assets", "_bak">>,
     <<"dokkaninfo.com", "/", "..", "/", "..", "/", "assets", "_bak", "/", "secret.txt">>,
     <<"..", "/", "..", "/", "..", "/", "..", "/", "srv", "/", "output", "/", "cards">>}

RECURSIVE LStripSlash(_)
LStripSlash(toks) ==
    IF toks # <<>> /\ Head(toks) = "/" THEN LStripSlash(Tail(toks)) ELSE toks

\* (rel or "").replace("\\", "/").lstrip("/")
norm_rel(rel) ==
    LStripSlash([i \in DOMAIN rel |-> IF rel[i] = "\\" THEN "/" ELSE rel[i]])

\* rel.split("/"): the names between the separators, empty ones included
RECURSIVE SplitSlash(_, _)
SplitSlash(toks, name) ==
    IF toks = <<>> THEN <<name>>
    ELSE IF Head(toks) = "/" THEN <<name>> \o SplitSlash(Tail(toks), <<>>)
    ELSE SplitSlash(Tail(toks), Append(name, Head(toks)))

\* root.joinpath(*names).resolve(): empty names and "." vanish, ".." leaves
\* the directory reached so far (the top directory is its own parent)
RECURSIVE JoinResolve(_, _)
JoinResolve(path, names) ==
    IF names = <<>> THEN path
    ELSE LET n == Head(names)
         IN  IF n = <<>> \/ n = <<".">> THEN JoinResolve(path, Tail(names))
             ELSE IF n = <<"..">>
                  THEN JoinResolve(IF path = <<>> THEN path
                                   ELSE SubSeq(path, 1, Len(path) - 1), Tail(names))
             ELSE JoinResolve(Append(path, n), Tail(names))

\* str(path): every name behind a separator
RECURSIVE PathStr(_)
PathStr(path) ==
    IF path = <<>> THEN <<>>
    ELSE <<"/">> \o Head(path) \o PathStr(Tail(path))

\* str.startswith
StartsWith(str, prefix) ==
    Len(str) >= Len(prefix) /\ SubSeq(str, 1, Len(prefix)) = prefix

\* Path.exists: a file of the disk, or a directory above one
PathExists(disk, path) ==
    \E f \in disk : Len(f) >= Len(path) /\ SubSeq(f, 1, Len(path)) = path

\* the path is the root or lies below it, name by name
InsideRoot(root, path) ==
    Len(path) >= Len(root) /\ SubSeq(path, 1, Len(root)) = root

NoPath == [some |-> FALSE, path |-> <<>>]

secure_path_under(disk, root, rel) ==
    LET target == JoinResolve(root, SplitSlash(norm_rel(rel), <<>>))
    IN  IF ~StartsWith(PathStr(target), PathStr(root)) THEN NoPath
        ELSE IF ~PathExists(disk, target) THEN NoPath
        ELSE [some |-> TRUE, path |-> target]

InitAssetRoute ==
    /\ fn \in {"serve_asset", "exists_probe"}
    /\ arg \in [rel : RequestPool, disk : DiskPool]

\* GET /assets/<path:relpath>: 404, or the file at the path is sent
serve_asset ==
    /\ fn = "serve_asset"
    /\ ~out.done
    /\ LET full == secure_path_under(arg.disk, ASSETS_ROOT, arg.rel)
       IN  out' = Returned([answered |-> full.some, path |-> full.path])
    /\ UNCHANGED <<fn, arg, mergeVars, regVars, orderVars, stepVars, walkVars, raceVars>>

\* GET /__exists?rel=...: {"exists": ok}
exists_probe ==
    /\ fn = "exists_probe"
    /\ ~out.done
    /\ LET full == secure_path_under(arg.disk, ASSETS_ROOT, arg.rel)
       IN  out' = Returned([answered |-> full.some, path |-> full.path])
    /\ UNCHANGED <<fn, arg, mergeVars, regVars, orderVars, stepVars, walkVars, raceVars>>

\* C30: secure_path_under returns a path only if that path is the root or
\* lies inside it, whatever ".." the request holds and whatever directory
\* beside the root has a name beginning with the root's name; so neither the
\* asset route nor the existence probe answers for a file outside ASSETS_ROOT.
C30_NothingOutsideRoot ==
    (fn \in {"serve_asset", "exists_probe"} /\ out.done /\ out.val.answered)
    => InsideRoot(ASSETS_ROOT, out.val.path)

-----------------------------------------------------------------------------
(* SpecText assembled *)

InitText ==
    /\ MergeIdle /\ OrderIdle /\ StepIdle /\ WalkIdle /\ RegIdle /\ RaceIdle
    /\ out = Pending
    /\ \/ InitRender
       \/ InitPassive
       \/ InitSplit
       \/ InitScope
       \/ InitNames
       \/ InitExtract
       \/ InitArt
       \/ InitClassify
       \/ InitChain
       \/ InitAssetRoute

NextText ==
    \/ ApplyRender
    \/ ApplyPassive
    \/ ApplySplit
    \/ ApplyScope
    \/ ApplyNames
    \/ ApplyExtract
    \/ ApplyArt
    \/ ApplyClassify
    \/ ApplyChain
    \/ serve_asset
    \/ exists_probe

SpecText == InitText /\ [][NextText]_vars

====
